---- MODULE Spec2Model ----
\* A model of the free-form loading engine of yukimula918/golintci (package
\* golang): the manifest reader (newModule), the upward manifest search
\* (goModFileOf, initProgram), the registries of Program and Package, the source
\* file node (SrcFile.Contain, SrcFile.update) and the two type-checking passes
\* (parseSourceFileByFree, parseGoPackageByFree).
\*
\* Strings are sequences of one-character strings, so that strings.HasPrefix,
\* strings.HasSuffix, strings.Split, strings.TrimSpace and the filepath
\* functions are computed character by character, as the Go library does.
EXTENDS Integers, Sequences, FiniteSets, TLC

VARIABLES fs, call, ret, pkgSet, pkgs, srcs, fsets, clock

vars == <<fs, call, ret, pkgSet, pkgs, srcs, fsets, clock>>

heapVars == <<pkgSet, pkgs, srcs, fsets, clock>>

\* the value of G at the value of e, with e evaluated once: a statement of the
\* code and the statements that follow it
Then(e, G(_)) ==
    CHOOSE y \in {G(v) : v \in {e}} : TRUE

-----------------------------------------------------------------------------
\* Library: package strings

HasPrefix(s, p) ==
    Len(p) <= Len(s) /\ SubSeq(s, 1, Len(p)) = p

HasSuffix(s, p) ==
    Len(p) <= Len(s) /\ SubSeq(s, Len(s) - Len(p) + 1, Len(s)) = p

\* unicode.IsSpace restricted to the characters the model's texts use
IsSpace(c) ==
    c \in {" ", "\t", "\n", "\r"}

RECURSIVE TrimLeft(_)
TrimLeft(s) ==
    IF s # <<>> /\ IsSpace(Head(s)) THEN TrimLeft(Tail(s)) ELSE s

RECURSIVE TrimRight(_)
TrimRight(s) ==
    IF s # <<>> /\ IsSpace(s[Len(s)])
    THEN TrimRight(SubSeq(s, 1, Len(s) - 1))
    ELSE s

TrimSpace(s) ==
    TrimRight(TrimLeft(s))

\* the least index at which sep occurs in s, or 0
IndexOf(s, sep) ==
    LET hits == {i \in 1..(Len(s) - Len(sep) + 1) : SubSeq(s, i, i + Len(sep) - 1) = sep}
    IN  IF hits = {} THEN 0 ELSE CHOOSE i \in hits : \A j \in hits : i <= j

\* strings.Split(s, sep) for a non-empty separator: runs of separators are not
\* collapsed, two adjacent separators delimit an empty item
RECURSIVE Split(_, _)
Split(s, sep) ==
    LET i == IndexOf(s, sep)
    IN  IF i = 0
        THEN <<s>>
        ELSE <<SubSeq(s, 1, i - 1)>> \o Split(SubSeq(s, i + Len(sep), Len(s)), sep)

\* strings.Trim(s, cutset): strips every leading and trailing character of cutset
RECURSIVE Trim(_, _)
Trim(s, cutset) ==
    IF s # <<>> /\ Head(s) \in cutset THEN Trim(Tail(s), cutset)
    ELSE IF s # <<>> /\ s[Len(s)] \in cutset THEN Trim(SubSeq(s, 1, Len(s) - 1), cutset)
    ELSE s

RECURSIVE JoinLines(_, _)
JoinLines(lines, sep) ==
    IF lines = <<>> THEN <<>>
    ELSE IF Len(lines) = 1 THEN lines[1]
    ELSE lines[1] \o sep \o JoinLines(Tail(lines), sep)

-----------------------------------------------------------------------------
\* Library: package path/filepath, on absolute, clean, slash-separated paths

Slash == <<"/">>

\* the index of the last "/" of p, or 0
LastSlash(p) ==
    LET at == {i \in 1..Len(p) : p[i] = "/"}
    IN  IF at = {} THEN 0 ELSE CHOOSE i \in at : \A j \in at : j <= i

\* filepath.Dir
Dir(p) ==
    LET i == LastSlash(p)
    IN  IF i = 0 THEN <<".">>
        ELSE IF i = 1 THEN Slash
        ELSE SubSeq(p, 1, i - 1)

\* filepath.Base
Base(p) ==
    IF p = <<>> THEN <<".">>
    ELSE IF p = Slash THEN Slash
    ELSE SubSeq(p, LastSlash(p) + 1, Len(p))

\* filepath.Join of a clean directory and a name
Join(dir, name) ==
    IF dir = Slash THEN Slash \o name ELSE dir \o Slash \o name

\* filepath.Abs: the inputs of the model are absolute and clean already
Abs(p) ==
    p

\* the elements of a path: the items between its separators
Elements(p) ==
    Split(p, Slash)

\* the elements filepath.Clean keeps: empty and "." elements are dropped and
\* ".." removes the element before it; at the root ".." is dropped, at the
\* start of a relative path it stays
RECURSIVE CleanElements(_, _, _)
CleanElements(done, rest, rooted) ==
    IF rest = <<>> THEN done
    ELSE LET e == Head(rest)
         IN  IF e = <<>> \/ e = <<".">>
             THEN CleanElements(done, Tail(rest), rooted)
             ELSE IF e = <<".", ".">>
             THEN IF done # <<>> /\ done[Len(done)] # <<".", ".">>
                  THEN CleanElements(SubSeq(done, 1, Len(done) - 1), Tail(rest), rooted)
                  ELSE IF rooted
                  THEN CleanElements(done, Tail(rest), rooted)
                  ELSE CleanElements(Append(done, e), Tail(rest), rooted)
             ELSE CleanElements(Append(done, e), Tail(rest), rooted)

\* filepath.Clean
Clean(p) ==
    IF p = <<>> THEN <<".">>
    ELSE LET rooted == Head(p) = "/"
             kept   == JoinLines(CleanElements(<<>>, Elements(p), rooted), Slash)
         IN  IF rooted THEN Slash \o kept
             ELSE IF kept = <<>> THEN <<".">>
             ELSE kept

\* filepath.Join of two elements: empty elements are ignored, the result is
\* cleaned
JoinClean(a, b) ==
    IF a = <<>> /\ b = <<>> THEN <<>>
    ELSE IF a = <<>> THEN Clean(b)
    ELSE IF b = <<>> THEN Clean(a)
    ELSE Clean(a \o Slash \o b)

\* the number of leading elements two element lists share
RECURSIVE CommonElements(_, _)
CommonElements(x, y) ==
    IF x = <<>> \/ y = <<>> \/ Head(x) # Head(y) THEN 0
    ELSE 1 + CommonElements(Tail(x), Tail(y))

\* the elements of a clean path that filepath.Rel compares
RelElements(q) ==
    IF q = <<".">> THEN <<>> ELSE SelectSeq(Elements(q), LAMBDA e : e # <<>>)

\* filepath.Rel: the path that leads from basepath to targpath, or an error
\* when one of them is absolute and the other is not, or when basepath keeps a
\* ".." that cannot be resolved
Rel(basepath, targpath) ==
    Then(Clean(basepath), LAMBDA base :
    Then(Clean(targpath), LAMBDA targ :
        IF base = targ THEN [err |-> "", path |-> <<".">>]
        ELSE IF (Head(base) = "/") # (Head(targ) = "/")
        THEN [err |-> "Rel", path |-> <<>>]
        ELSE Then(RelElements(base), LAMBDA b :
             Then(RelElements(targ), LAMBDA t :
             Then(CommonElements(b, t), LAMBDA n :
                 IF \E i \in (n + 1)..Len(b) : b[i] = <<".", ".">>
                 THEN [err |-> "Rel", path |-> <<>>]
                 ELSE [err |-> "",
                       path |-> JoinLines([i \in 1..(Len(b) - n) |-> <<".", ".">>]
                                             \o SubSeq(t, n + 1, Len(t)), Slash)])))))

-----------------------------------------------------------------------------
\* Constants of the package

\* const.go
GoModFileName == <<"g", "o", ".", "m", "o", "d">>

GoFileSuffix == <<".", "g", "o">>

NoneString == <<>>

PathSeparator == <<"/">>

GoModulePrefix == <<"m", "o", "d", "u", "l", "e", " ">>

\* const.go newline(), where os.PathSeparator is '/'
newline == <<"\n">>

\* The constants newModule uses are not among the files of the repository under
\* src/; they are taken from the manifest format section of the specification.
NewLine == <<"\n">>

ModulePrefix == <<"m", "o", "d", "u", "l", "e", " ">>

VersionPrefix == <<"g", "o", " ">>

TabString == <<"\t">>

SpaceChar == <<" ">>

GoModIndirect == <<"i", "n", "d", "i", "r", "e", "c", "t">>

-----------------------------------------------------------------------------
\* The file system: a function from absolute paths to entries.

DirEntry == [kind |-> "dir", bytes |-> <<>>]

FileEntry(bytes) == [kind |-> "file", bytes |-> bytes]

Root == Slash

DirR == <<"/", "r">>

DirS == DirR \o <<"/", "s">>

\* proper ancestors of p, nearest first
RECURSIVE Ancestors(_)
Ancestors(p) ==
    IF p = Root \/ LastSlash(p) = 0 THEN <<>>
    ELSE Then(Dir(p), LAMBDA d : <<d>> \o Ancestors(d))

\* os.Stat: "ok", or the errno. A path below a regular file is ENOTDIR, which
\* os.IsNotExist does not report as missing; only ENOENT is.
Stat(f, p) ==
    IF p \in DOMAIN f THEN "ok"
    ELSE Then(Ancestors(p), LAMBDA above :
             IF \E i \in 1..Len(above) :
                   /\ above[i] \in DOMAIN f
                   /\ f[above[i]].kind = "file"
             THEN "ENOTDIR"
             ELSE "ENOENT")

IsNotExist(st) ==
    st = "ENOENT"

\* os.ReadFile: the bytes, or an error for a directory or a missing path
ReadFile(f, p) ==
    IF Stat(f, p) # "ok" THEN [err |-> Stat(f, p), bytes |-> <<>>]
    ELSE IF f[p].kind = "dir" THEN [err |-> "EISDIR", bytes |-> <<>>]
    ELSE [err |-> "", bytes |-> f[p].bytes]

-----------------------------------------------------------------------------
\* Module descriptor reader

NoDeps == [x \in {} |-> <<>>]

NoModule == [nil |-> TRUE]

\* map assignment m[k] = v
MapPut(m, k, v) ==
    [x \in (DOMAIN m) \cup {k} |-> IF x = k THEN v ELSE m[x]]

\* one iteration of the loop over the manifest's lines
ModuleLine(module, line) ==
    IF HasPrefix(line, ModulePrefix)
    THEN [module EXCEPT !.ModuleName = TrimSpace(SubSeq(line, Len(ModulePrefix) + 1, Len(line)))]
    ELSE IF HasPrefix(line, VersionPrefix)
    THEN [module EXCEPT !.GoVersion = TrimSpace(SubSeq(line, Len(VersionPrefix) + 1, Len(line)))]
    ELSE IF HasPrefix(line, TabString)
    THEN LET items == Split(TrimSpace(line), SpaceChar)
         IN  IF Len(items) >= 2
             THEN LET depPkgPath == TrimSpace(items[1])
                      depVersion == TrimSpace(items[2])
                      lastItem   == TrimSpace(items[Len(items)])
                  IN  IF lastItem = GoModIndirect
                      THEN [module EXCEPT !.IndirectDeps = MapPut(@, depPkgPath, depVersion)]
                      ELSE [module EXCEPT !.DirectDeps = MapPut(@, depPkgPath, depVersion)]
             ELSE module
    ELSE module

RECURSIVE ModuleLines(_, _)
ModuleLines(module, lines) ==
    IF lines = <<>> THEN module
    ELSE ModuleLines(ModuleLine(module, Head(lines)), Tail(lines))

\* the name check of newModule
IsGoModName(goModFile) ==
    HasSuffix(goModFile, GoModFileName)

\* a reader that lets a zero-byte manifest through
IsEmptyManifestNever(bytes) ==
    FALSE

\* the check of the bytes read by newModule
IsEmptyManifest(bytes) ==
    Len(bytes) = 0

newModule(f, goModFile) ==
    IF IsNotExist(Stat(f, goModFile))
    THEN [err |-> "NotFound", module |-> NoModule]
    ELSE IF ~IsGoModName(goModFile)
    THEN [err |-> "WrongKind", module |-> NoModule]
    ELSE LET path == Abs(goModFile)
             rd   == ReadFile(f, path)
         IN  IF rd.err # ""
             THEN [err |-> "Read", module |-> NoModule]
             ELSE IF IsEmptyManifest(rd.bytes)
             THEN [err |-> "Empty", module |-> NoModule]
             ELSE [err |-> "",
                   module |-> ModuleLines(
                       [RootPath     |-> Dir(path),
                        GoVersion    |-> <<>>,
                        GoModFile    |-> path,
                        ModuleName   |-> <<>>,
                        DirectDeps   |-> NoDeps,
                        IndirectDeps |-> NoDeps],
                       Split(rd.bytes, NewLine))]

-----------------------------------------------------------------------------
\* Upward manifest search and Program construction

RECURSIVE goModFileOf(_, _)
goModFileOf(f, cwdPath) ==
    IF ~(Len(cwdPath) > 0 /\ cwdPath # Slash /\ cwdPath # <<".">> /\ cwdPath # <<".", ".">>)
    THEN [err |-> "NoGoMod", path |-> <<>>]
    ELSE IF ~IsNotExist(Stat(f, Join(cwdPath, GoModFileName)))
    THEN [err |-> "", path |-> cwdPath]
    ELSE goModFileOf(f, Dir(cwdPath))

\* os.Getwd, used by initProgram for an empty argument
WorkDir == DirS

NoPkgSet == [x \in {} |-> 0]

\* the empty package registry a new Program starts with
NewPkgSet == NoPkgSet

initProgram(f, cwd) ==
    LET cwdPath == Abs(IF Len(cwd) = 0 THEN WorkDir ELSE cwd)
        found   == goModFileOf(f, cwdPath)
    IN  IF found.err # ""
        THEN [err |-> found.err, module |-> NoModule, pkgSet |-> NoPkgSet]
        ELSE LET m == newModule(f, found.path)
             IN  IF m.err # ""
                 THEN [err |-> m.err, module |-> NoModule, pkgSet |-> NoPkgSet]
                 ELSE [err |-> "", module |-> m.module, pkgSet |-> NewPkgSet]

\* the loop of findGoModFileOf from the directory upward
RECURSIVE FindGoModFrom(_, _)
FindGoModFrom(f, dirPath) ==
    IF ~(Len(dirPath) > 0 /\ dirPath # Slash /\ dirPath # <<".">> /\ dirPath # <<".", ".">>)
    THEN NoneString
    ELSE IF ~IsNotExist(Stat(f, Join(dirPath, GoModFileName)))
    THEN Join(dirPath, GoModFileName)
    ELSE IF Dir(dirPath) = dirPath
    THEN NoneString
    ELSE FindGoModFrom(f, Dir(dirPath))

findGoModFileOf(f, dirPath) ==
    IF IsNotExist(Stat(f, dirPath)) THEN NoneString ELSE FindGoModFrom(f, Abs(dirPath))

\* the characters of a cutset of strings.Trim
CutSet(s) == {s[i] : i \in 1..Len(s)}

\* step 3 of findPackagePath: the first line that starts with the prefix,
\* trimmed by the characters of the prefix
RECURSIVE ModuleNameIn(_)
ModuleNameIn(lines) ==
    IF lines = <<>> THEN <<>>
    ELSE IF HasPrefix(Head(lines), GoModulePrefix)
    THEN Trim(Head(lines), CutSet(GoModulePrefix))
    ELSE ModuleNameIn(Tail(lines))

\* steps 2 to 4 of findPackagePath, for the go.mod found
PackagePathUnder(f, goModFile, dirPath) ==
    Then(Trim(Rel(Dir(goModFile), dirPath).path, CutSet(PathSeparator)), LAMBDA relPath :
    Then(ReadFile(f, goModFile), LAMBDA rd :
        IF rd.err # "" THEN relPath
        ELSE Then(ModuleNameIn(Split(rd.bytes, newline)), LAMBDA moduleName :
                 IF Len(moduleName) > 0
                 THEN moduleName \o <<"/">> \o relPath
                 ELSE relPath)))

findPackagePath(f, dir) ==
    Then(findGoModFileOf(f, Abs(dir)), LAMBDA goModFile :
        IF Len(goModFile) = 0 THEN Abs(dir)
        ELSE PackagePathUnder(f, goModFile, Abs(dir)))

-----------------------------------------------------------------------------
\* Go source texts and the syntax trees go/parser builds from them

PackageKeyword == <<"p", "a", "c", "k", "a", "g", "e", " ">>

ImportKeyword == <<"i", "m", "p", "o", "r", "t", " ">>

Quote(s) == <<"\"">> \o s \o <<"\"">>

NoSyntax == [nil |-> TRUE]

\* the import specs of the lines after the package clause; "bad" marks a line
\* the grammar does not accept
RECURSIVE ImportSpecs(_)
ImportSpecs(lines) ==
    IF lines = <<>> THEN <<>>
    ELSE Then(TrimSpace(Head(lines)), LAMBDA line :
         Then(ImportSpecs(Tail(lines)), LAMBDA rest :
             IF line = <<>> THEN rest
             ELSE IF rest = <<"bad">> THEN rest
             ELSE IF HasPrefix(line, ImportKeyword)
             THEN <<TrimSpace(SubSeq(line, Len(ImportKeyword) + 1, Len(line)))>> \o rest
             ELSE <<"bad">>))

\* the start of a line comment
LineComment == <<"/", "/">>

\* the package clause: the keyword, the name, and nothing after the name but a
\* line comment
PackageClause(line) ==
    IF ~HasPrefix(line, PackageKeyword) THEN [err |-> "parse", Name |-> <<>>]
    ELSE LET rest  == TrimSpace(SubSeq(line, Len(PackageKeyword) + 1, Len(line)))
             i     == IndexOf(rest, <<" ">>)
             name  == IF i = 0 THEN rest ELSE SubSeq(rest, 1, i - 1)
             after == IF i = 0 THEN <<>> ELSE TrimSpace(SubSeq(rest, i, Len(rest)))
         IN  IF name = <<>> \/ HasPrefix(name, LineComment)
                \/ (after # <<>> /\ ~HasPrefix(after, LineComment))
             THEN [err |-> "parse", Name |-> <<>>]
             ELSE [err |-> "", Name |-> name]

\* parser.ParseFile on the bytes of a file: the tree (package name and import
\* specs, each with its quoted path), or a parse error
ParseFile(bytes) ==
    Then(Split(bytes, NewLine), LAMBDA lines :
    Then(PackageClause(TrimSpace(lines[1])), LAMBDA clause :
    Then(ImportSpecs(Tail(lines)), LAMBDA specs :
        IF clause.err # "" \/ specs = <<"bad">>
        THEN [err |-> "parse", Name |-> <<>>, Imports |-> <<>>]
        ELSE [err |-> "", Name |-> clause.Name, Imports |-> specs])))

\* an *ast.File: the parsed tree, the FileSet it was parsed against and its
\* position in that FileSet
AstFile(tree, fset, pos) ==
    [Name |-> tree.Name, Imports |-> tree.Imports, fset |-> fset, Pos |-> pos]

\* token.NoPos
NoPos == 0

\* FileSet.Position(pos).Filename: a FileSet is the sequence of the names of
\* the files added to it, file i holding position i; the zero Position has an
\* empty Filename
Filename(fileSet, pos) ==
    IF pos \in 1..Len(fileSet) THEN fileSet[pos] ELSE <<>>

-----------------------------------------------------------------------------
\* Package, SrcFile and LoadInfo objects. The heap h holds the Program's
\* registry pkgSet (import path -> Package), the Package objects pkgs, the
\* SrcFile objects srcs and the token.FileSet objects fsets; an object is
\* identified by its index, 0 is nil.

NoLoadInfo == [nil |-> TRUE]

NoSrcFiles == [x \in {} |-> 0]

\* a Package that records its directory as its import path
newPackageOfDir(program, pkgName, pkgPath, dirPath) ==
    [program  |-> program,
     pkgName  |-> pkgName,
     pkgPath  |-> dirPath,
     dirPath  |-> dirPath,
     loadInfo |-> [nil |-> TRUE],
     srcFiles |-> [x \in {} |-> 0],
     fileSet  |-> 0,
     imports  |-> <<>>,
     typePkg  |-> 0,
     typInfo  |-> 0,
     typSize  |-> 0]

\* pkgs.go newPackage; program is TRUE for the Program, FALSE for nil
newPackage(program, pkgName, pkgPath, dirPath) ==
    [program  |-> program,
     pkgName  |-> pkgName,
     pkgPath  |-> pkgPath,
     dirPath  |-> dirPath,
     loadInfo |-> NoLoadInfo,
     srcFiles |-> NoSrcFiles,
     fileSet  |-> 0,
     imports  |-> <<>>,
     typePkg  |-> 0,
     typInfo  |-> 0,
     typSize  |-> 0]

newSrcFile(pkg, path) ==
    [pkg    |-> pkg,
     path   |-> path,
     code   |-> NoneString,
     syntax |-> NoSyntax,
     memSet |-> <<>>]

\* a registry that never finds the path and creates a Package on every call
PkgRegisteredNever(h, pkgPath) ==
    FALSE

\* whether Program.newPackage finds the path registered
PkgRegistered(h, pkgPath) ==
    pkgPath \in DOMAIN h.pkgSet

\* Program.newPackage: the heap after the call and the Package returned
ProgramNewPackage(h, pkgName, pkgPath, dirPath) ==
    IF PkgRegistered(h, pkgPath)
    THEN [h |-> h, pkg |-> h.pkgSet[pkgPath]]
    ELSE LET id == Len(h.pkgs) + 1
         IN  [h |-> [h EXCEPT !.pkgs = Append(@, newPackage(TRUE, pkgName, pkgPath, dirPath)),
                              !.pkgSet = MapPut(@, pkgPath, id)],
              pkg |-> id]

\* newPackage(nil, ...) of the single-file loader: a Package no Program holds
StandaloneNewPackage(h, pkgName, pkgPath, dirPath) ==
    [h |-> [h EXCEPT !.pkgs = Append(@, newPackage(FALSE, pkgName, pkgPath, dirPath))],
     pkg |-> Len(h.pkgs) + 1]

\* a registry that never finds the file and creates a SrcFile on every call
SrcRegisteredNever(h, pkg, srcPath) ==
    FALSE

\* whether Package.newSrcFile finds the path registered
SrcRegistered(h, pkg, srcPath) ==
    srcPath \in DOMAIN h.pkgs[pkg].srcFiles

\* Package.newSrcFile: the heap after the call and the SrcFile returned
PackageNewSrcFile(h, pkg, srcPath) ==
    IF SrcRegistered(h, pkg, srcPath)
    THEN [h |-> h, file |-> h.pkgs[pkg].srcFiles[srcPath]]
    ELSE LET id == Len(h.srcs) + 1
         IN  [h |-> [h EXCEPT !.srcs = Append(@, newSrcFile(pkg, srcPath)),
                              !.pkgs[pkg].srcFiles = MapPut(@, srcPath, id)],
              file |-> id]

\* SrcFile.Contain needs the Package and its FileSet: a nil one is dereferenced
ContainPanics(h, file, pos) ==
    pos # NoPos /\ (h.srcs[file].pkg = 0 \/ h.pkgs[h.srcs[file].pkg].fileSet = 0)

\* a comparison that accepts every path that starts with the file's path
SamePathByPrefix(path, filePath) ==
    HasPrefix(path, filePath)

\* the comparison of SrcFile.Contain
SamePath(path, filePath) ==
    path = filePath

\* SrcFile.Contain, where it does not panic
Contain(h, file, pos) ==
    IF pos # NoPos
    THEN SamePath(Filename(h.fsets[h.pkgs[h.srcs[file].pkg].fileSet], pos), h.srcs[file].path)
    ELSE FALSE

\* a nil ssa.Member
NilMember == [nil |-> TRUE]

\* the members of the map that update appends, in the order the map yields
\* them; a nil member is skipped
RECURSIVE ContainedMembers(_, _, _)
ContainedMembers(h, file, members) ==
    IF members = <<>> THEN <<>>
    ELSE IF Head(members) = NilMember THEN ContainedMembers(h, file, Tail(members))
    ELSE IF Contain(h, file, Head(members).Pos)
    THEN <<Head(members)>> \o ContainedMembers(h, file, Tail(members))
    ELSE ContainedMembers(h, file, Tail(members))

\* the member set update starts from
ResetMembers(old) ==
    <<>>

\* SrcFile.update, where Contain does not panic
update(h, file, code, syntax, members) ==
    [h EXCEPT !.srcs[file] =
        [@ EXCEPT !.code = code,
                  !.syntax = syntax,
                  !.memSet = ResetMembers(@) \o ContainedMembers(h, file, members)]]

-----------------------------------------------------------------------------
\* Package inference

\* The constant readGoPackageIn scans for is not among the files of the
\* repository under src/; it is the package-declaration keyword.
PackagePrefix == <<"p", "a", "c", "k", "a", "g", "e", " ">>

\* the first line that, trimmed, starts with the keyword: the text after it
RECURSIVE PackageLine(_)
PackageLine(lines) ==
    IF lines = <<>> THEN [err |-> "NoPackage", name |-> <<>>]
    ELSE LET line == TrimSpace(Head(lines))
         IN  IF HasPrefix(line, PackagePrefix)
             THEN [err |-> "",
                   name |-> TrimSpace(SubSeq(line, Len(PackagePrefix) + 1, Len(line)))]
             ELSE PackageLine(Tail(lines))

readGoPackageIn(f, goFile) ==
    IF IsNotExist(Stat(f, goFile)) THEN [err |-> "NotExist", name |-> <<>>]
    ELSE Then(ReadFile(f, goFile), LAMBDA rd :
             IF rd.err # "" THEN [err |-> "Read", name |-> <<>>]
             ELSE Then(Split(rd.bytes, NewLine), LAMBDA lines : PackageLine(lines)))

NoPkgInfo(err) ==
    [err |-> err, pkgPath |-> <<>>, pkgName |-> <<>>, pkgDir |-> <<>>]

\* an import path made of the module name and the whole path of the directory
ModulePkgPathAbsolute(module, dir) ==
    [err |-> "", path |-> JoinClean(module.ModuleName, dir)]

\* the import path of a directory of the module
ModulePkgPath(module, dir) ==
    Then(Rel(module.RootPath, dir), LAMBDA rel :
        IF rel.err # "" THEN [err |-> "PathResolution", path |-> <<>>]
        ELSE [err |-> "", path |-> JoinClean(module.ModuleName, rel.path)])

\* steps 2 to 4 of inferGoPkgInfo, for a path that names a directory or a file
InferPkgInfoOf(f, module, filePath) ==
    IF f[filePath].kind = "dir"
    THEN Then(ModulePkgPath(module, filePath), LAMBDA pp :
             IF pp.err # "" THEN NoPkgInfo(pp.err)
             ELSE [err |-> "", pkgPath |-> pp.path,
                   pkgName |-> Base(filePath), pkgDir |-> filePath])
    ELSE IF HasSuffix(filePath, GoFileSuffix)
    THEN Then(ModulePkgPath(module, Dir(filePath)), LAMBDA pp :
             IF pp.err # "" THEN NoPkgInfo(pp.err)
             ELSE Then(readGoPackageIn(f, filePath), LAMBDA pn :
                      IF pn.err # "" THEN NoPkgInfo(pn.err)
                      ELSE [err |-> "", pkgPath |-> pp.path,
                            pkgName |-> pn.name, pkgDir |-> Dir(filePath)]))
    ELSE Then(ModulePkgPath(module, Dir(filePath)), LAMBDA pp :
             IF pp.err # "" THEN NoPkgInfo(pp.err)
             ELSE [err |-> "", pkgPath |-> pp.path,
                   pkgName |-> Base(Dir(filePath)), pkgDir |-> Dir(filePath)])

inferGoPkgInfo(f, module, file) ==
    Then(Stat(f, Abs(file)), LAMBDA st :
        IF module = NoModule THEN NoPkgInfo("NoModule")
        ELSE IF IsNotExist(st) THEN NoPkgInfo("NotExist")
        ELSE IF st # "ok" THEN NoPkgInfo("NoInfo")
        ELSE InferPkgInfoOf(f, module, Abs(file)))

-----------------------------------------------------------------------------
\* The type-checking passes. tc is what types.Config.Check returned:
\* tc.typePkg is whether the *types.Package is non-nil, tc.typeErr whether the
\* error is non-nil. time.Now() is the logical clock h.clock + 1, which also
\* names the objects a pass allocates (types.Package, types.Info, Sizes).

ReadError(path) == [kind |-> "read", path |-> path]

EmptyError(path) == [kind |-> "empty", path |-> path]

TypeError == [kind |-> "type", path |-> <<>>]

NoTypesPackageError == [kind |-> "no types.Package", path |-> <<>>]

\* the import path of an import spec: its value without the quotes
ImportPath(value) ==
    Trim(value, {"\""})

RECURSIVE ImportPaths(_)
ImportPaths(specs) ==
    IF specs = <<>> THEN <<>> ELSE <<ImportPath(Head(specs))>> \o ImportPaths(Tail(specs))

\* the import list a pass leaves, given the one it found and the paths it adds
AddImports(old, added) ==
    old \o added

\* IllTyped of the single-file pass
FileIllTyped(tc) ==
    tc.typeErr

\* the LoadInfo the single-file pass installs
FileLoadInfo(old, t, path, tc) ==
    [LoadTime     |-> t,
     LoadedFiles  |-> <<path>>,
     IgnoredFiles |-> <<>>,
     IllTyped     |-> FileIllTyped(tc),
     FileErrors   |-> <<>>,
     TypeErrors   |-> IF tc.typeErr THEN <<TypeError>> ELSE <<>>,
     DepsErrors   |-> <<>>]

\* parseSourceFileByFree on a SrcFile with a Package: the heap after the call
\* and the error returned ("" for nil)
parseSourceFileByFree(h, f, file, tc) ==
    LET path == h.srcs[file].path
        pkg  == h.srcs[file].pkg
        rd   == ReadFile(f, path)
    IN  IF rd.err # "" THEN [h |-> h, err |-> "Read"]
        ELSE IF Len(rd.bytes) = 0 THEN [h |-> h, err |-> "Empty"]
        ELSE Then(ParseFile(rd.bytes), LAMBDA tree :
                 IF tree.err # "" THEN [h |-> h, err |-> "ParseFailure"]
                 ELSE LET fileSet == Len(h.fsets) + 1
                          syntax  == AstFile(tree, fileSet, 1)
                          h1 == [h EXCEPT !.fsets = Append(@, <<path>>)]
                          h2 == update(h1, file, rd.bytes, syntax, <<>>)
                          t  == h.clock + 1
                      IN  IF ~tc.typePkg THEN [h |-> h2, err |-> "NoTypesPackage"]
                          ELSE [h |-> [h2 EXCEPT
                                    !.clock = t,
                                    !.pkgs[pkg] = [@ EXCEPT
                                        !.fileSet  = fileSet,
                                        !.typePkg  = t,
                                        !.typInfo  = t,
                                        !.typSize  = t,
                                        !.imports  = AddImports(@, ImportPaths(syntax.Imports)),
                                        !.loadInfo = FileLoadInfo(@, t, path, tc)]],
                                err |-> ""])

\* a pass that goes on with the LoadInfo it finds
NewLoadInfoKept(old, t) ==
    IF old = NoLoadInfo
    THEN [LoadTime     |-> t,
          LoadedFiles  |-> <<>>,
          IgnoredFiles |-> <<>>,
          IllTyped     |-> FALSE,
          FileErrors   |-> <<>>,
          TypeErrors   |-> <<>>,
          DepsErrors   |-> <<>>]
    ELSE [old EXCEPT !.LoadTime = t]

\* the LoadInfo the package pass starts from
NewLoadInfo(old, t) ==
    [LoadTime     |-> t,
     LoadedFiles  |-> <<>>,
     IgnoredFiles |-> <<>>,
     IllTyped     |-> FALSE,
     FileErrors   |-> <<>>,
     TypeErrors   |-> <<>>,
     DepsErrors   |-> <<>>]

\* a step 2 that ends at the first file it cannot read
RECURSIVE ReadFilesUntilError(_, _, _, _)
ReadFilesUntilError(acc, f, pkg, files) ==
    IF files = <<>> THEN acc
    ELSE LET syntax  == Head(files)
             h       == acc.h
             srcPath == Abs(Filename(h.fsets[h.pkgs[pkg].fileSet], syntax.Pos))
             rd      == ReadFile(f, srcPath)
         IN  IF rd.err # "" \/ Len(rd.bytes) = 0
             THEN [acc EXCEPT !.h.pkgs[pkg].loadInfo.FileErrors =
                                  Append(@, ReadError(srcPath))]
             ELSE LET nf == PackageNewSrcFile(h, pkg, srcPath)
                      h1 == update(nf.h, nf.file, rd.bytes, syntax, <<>>)
                  IN  ReadFilesUntilError(
                          [h |-> [h1 EXCEPT !.pkgs[pkg].loadInfo.LoadedFiles =
                                                Append(@, srcPath)],
                           astFiles |-> Append(acc.astFiles, syntax)],
                          f, pkg, Tail(files))

\* step 2 of the package pass over the files of astPkg, in the order the map
\* yields them: acc is the heap, with the Package's LoadInfo, and the syntax set
RECURSIVE ReadFiles(_, _, _, _)
ReadFiles(acc, f, pkg, files) ==
    IF files = <<>> THEN acc
    ELSE LET syntax  == Head(files)
             h       == acc.h
             srcPath == Abs(Filename(h.fsets[h.pkgs[pkg].fileSet], syntax.Pos))
             rd      == ReadFile(f, srcPath)
         IN  IF rd.err # ""
             THEN ReadFiles([acc EXCEPT !.h.pkgs[pkg].loadInfo.FileErrors =
                                            Append(@, ReadError(srcPath))],
                            f, pkg, Tail(files))
             ELSE IF Len(rd.bytes) = 0
             THEN ReadFiles([acc EXCEPT !.h.pkgs[pkg].loadInfo.FileErrors =
                                            Append(@, EmptyError(srcPath))],
                            f, pkg, Tail(files))
             ELSE LET nf == PackageNewSrcFile(h, pkg, srcPath)
                      h1 == update(nf.h, nf.file, rd.bytes, syntax, <<>>)
                  IN  ReadFiles([h |-> [h1 EXCEPT !.pkgs[pkg].loadInfo.LoadedFiles =
                                                      Append(@, srcPath)],
                                 astFiles |-> Append(acc.astFiles, syntax)],
                                f, pkg, Tail(files))

\* a step 3 that looks at the error alone
TypeCheckInfoByError(loadInfo, tc) ==
    IF tc.typeErr
    THEN [loadInfo EXCEPT !.IllTyped = TRUE, !.TypeErrors = Append(@, TypeError)]
    ELSE loadInfo

\* step 3 of the package pass: IllTyped and TypeErrors from the checker's result
TypeCheckInfo(loadInfo, tc) ==
    IF tc.typeErr
    THEN [loadInfo EXCEPT !.IllTyped = TRUE, !.TypeErrors = Append(@, TypeError)]
    ELSE IF ~tc.typePkg
    THEN [loadInfo EXCEPT !.IllTyped = TRUE, !.TypeErrors = Append(@, NoTypesPackageError)]
    ELSE loadInfo

\* step 4 of the package pass: the distinct non-empty import paths of all the
\* files of astPkg
RECURSIVE DeclaredImports(_)
DeclaredImports(files) ==
    IF files = <<>> THEN {}
    ELSE {ImportPaths(Head(files).Imports)[i] : i \in 1..Len(Head(files).Imports)}
            \cup DeclaredImports(Tail(files))

NonEmptyImports(files) ==
    {ip \in DeclaredImports(files) : Len(ip) > 0}

\* the orders in which a map may yield the elements of S
Orders(S) ==
    {q \in [1..Cardinality(S) -> S] : \A i, j \in 1..Cardinality(S) : q[i] = q[j] => i = j}

\* parseGoPackageByFree on a Package whose fileSet the loader has set; files is
\* astPkg.Files in the order the map yields them, importOrder the order in
\* which the import set is appended. astFiles is the syntax set handed to the
\* type checker, empty where the checker is not called
parseGoPackageByFree(h, f, pkg, files, tc, importOrder) ==
    IF pkg = 0 \/ Len(files) = 0
    THEN [h |-> h, err |-> "NoFiles", astFiles |-> <<>>]
    ELSE LET t  == h.clock + 1
             h0 == [h EXCEPT !.clock = t,
                             !.pkgs[pkg].loadInfo = NewLoadInfo(@, t)]
             rd == ReadFiles([h |-> h0, astFiles |-> <<>>], f, pkg, files)
         IN  [h |-> [rd.h EXCEPT !.pkgs[pkg] = [@ EXCEPT
                         !.loadInfo = TypeCheckInfo(@, tc),
                         !.typePkg  = IF tc.typePkg THEN t ELSE 0,
                         !.typInfo  = t,
                         !.typSize  = t,
                         !.imports  = AddImports(@, importOrder)]],
              err |-> "",
              astFiles |-> rd.astFiles]

\* newDefaultTypeConfig: the fields of types.Config that decide what the
\* checker reports
newDefaultTypeConfig ==
    [IgnoreFuncBodies         |-> FALSE,
     FakeImportC              |-> FALSE,
     DisableUnusedImportCheck |-> FALSE]

\* the imports of the trees that nothing in the files uses: a file of the
\* model is a package clause and import declarations, so all of them
UnusedImports(files) ==
    {ip \in DeclaredImports(files) : Len(ip) > 0}

\* types.Config.Check on the trees. found says what else is wrong in the
\* package: a type error in a declaration, a type error in a function body.
\* The checker reports an unused import unless the check is disabled, and
\* looks into function bodies unless they are ignored; with conf.Error set it
\* goes on after an error and returns the first one with the package.
Check(conf, files, found) ==
    [typePkg |-> TRUE,
     typeErr |-> \/ found.decl
                 \/ found.body /\ ~conf.IgnoreFuncBodies
                 \/ UnusedImports(files) # {} /\ ~conf.DisableUnusedImportCheck]

-----------------------------------------------------------------------------
\* The loaders. Each call builds its own Program; h is the heap the call
\* starts with. The order in which a range over a map yields its keys is an
\* input: order.dirs, order.keys, order.files and order.imports say whether the
\* keys come in ascending or in descending order, which are all the orders of
\* a map of up to two keys.

\* the elements of S in the order of the sequence all, or in the reverse order
Ordered(all, S, descending) ==
    LET up == SelectSeq(all, LAMBDA x : x \in S)
    IN  IF descending THEN [i \in 1..Len(up) |-> up[Len(up) + 1 - i]] ELSE up

\* the paths and the package names and import paths of the texts, ascending
SortedPaths ==
    <<DirR \o <<"/", "a">> \o GoFileSuffix,
      DirR \o <<"/", "a">> \o GoFileSuffix \o GoFileSuffix,
      DirS \o <<"/", "c">> \o GoFileSuffix>>

SortedDirs == <<DirR, DirS>>

SortedNames == <<<<"a">>, <<"r">>, <<"s">>>>

SortedImports == <<<<"f">>, <<"o">>>>

\* the files parser.ParseDir parses: the regular files of the directory whose
\* names end in ".go", in the order of their names
DirGoFiles(f, dir) ==
    SelectSeq(SortedPaths,
              LAMBDA p : /\ p \in DOMAIN f
                         /\ f[p].kind = "file"
                         /\ Dir(p) = dir
                         /\ HasSuffix(Base(p), GoFileSuffix))

\* parser.ParseDir into a FileSet that holds the files names already: every
\* file is added to the FileSet, the files that parse are grouped by their
\* package name, and the first parse error is returned with them
ParseDir(f, names, dir) ==
    Then(DirGoFiles(f, dir), LAMBDA paths :
    Then([i \in 1..Len(paths) |->
             [path |-> paths[i],
              tree |-> ParseFile(f[paths[i]].bytes),
              pos  |-> Len(names) + i]], LAMBDA parsed :
    Then(SelectSeq(parsed, LAMBDA x : x.tree.err = ""), LAMBDA good :
        [err   |-> IF Len(good) < Len(parsed) THEN "ParseFailure" ELSE "",
         names |-> names \o paths,
         pkgs  |-> [k \in {good[i].tree.Name : i \in 1..Len(good)} |->
                       SelectSeq(good, LAMBDA x : x.tree.Name = k)]])))

\* the import path of the Package of a key of parser.ParseDir
KeyPkgPath(pkgPath, pkgName, pkgKey) ==
    IF pkgKey # pkgName THEN pkgPath \o Slash \o pkgKey ELSE pkgPath

\* astPkg.Files in the order the map yields them
AstFiles(astPkg, fileSet, descending) ==
    Then(Ordered(SortedPaths, {astPkg[i].path : i \in 1..Len(astPkg)}, descending),
         LAMBDA paths :
            [i \in 1..Len(paths) |->
                LET x == CHOOSE x \in {astPkg[j] : j \in 1..Len(astPkg)} : x.path = paths[i]
                IN  AstFile(x.tree, fileSet, x.pos)])

\* the loop of the directory loaders over the packages of a directory; acc
\* holds the heap and the Packages loaded so far
RECURSIVE LoadAstPackages(_, _, _, _, _, _)
LoadAstPackages(acc, f, dir, keys, tc, order) ==
    IF keys = <<>> THEN acc
    ELSE IF Len(Head(keys)) > 0 /\ Len(dir.astPkgs[Head(keys)]) > 0
    THEN Then(ProgramNewPackage(acc.h, Head(keys),
                                KeyPkgPath(dir.pkgPath, dir.pkgName, Head(keys)),
                                dir.pkgDir), LAMBDA n :
         Then(AstFiles(dir.astPkgs[Head(keys)], dir.fileSet, order.files), LAMBDA files :
         Then(parseGoPackageByFree(
                  [n.h EXCEPT !.pkgs[n.pkg].fileSet = dir.fileSet], f, n.pkg, files, tc,
                  Ordered(SortedImports, NonEmptyImports(files), order.imports)), LAMBDA r :
         Then([h |-> r.h,
               pkgs |-> IF r.err = "" THEN Append(acc.pkgs, n.pkg) ELSE acc.pkgs],
              LAMBDA next : LoadAstPackages(next, f, dir, Tail(keys), tc, order)))))
    ELSE LoadAstPackages(acc, f, dir, Tail(keys), tc, order)

\* the result of a loader that fails
LoadFailed(h, err) ==
    [h |-> h, err |-> err, pkgs |-> <<>>, file |-> 0]

\* step 3 of the directory loader: the Program, the inferred Package, the loop
LoadGoDirectoryIn(h, f, goDirPath, tc, order, fileSet, parse) ==
    Then(initProgram(f, goDirPath), LAMBDA program :
        IF program.err # "" THEN LoadFailed(h, "NoModule")
        ELSE Then(inferGoPkgInfo(f, program.module, goDirPath), LAMBDA info :
                 IF info.err # "" THEN LoadFailed(h, "PathResolution")
                 ELSE Then(LoadAstPackages(
                               [h |-> [h EXCEPT !.pkgSet = program.pkgSet], pkgs |-> <<>>],
                               f,
                               [fileSet |-> fileSet,
                                astPkgs |-> parse.pkgs,
                                pkgPath |-> info.pkgPath,
                                pkgName |-> info.pkgName,
                                pkgDir  |-> goDirPath],
                               Ordered(SortedNames, DOMAIN parse.pkgs, order.keys),
                               tc, order), LAMBDA r :
                          [h |-> r.h, err |-> "", pkgs |-> r.pkgs, file |-> 0])))

loadGoDirectoryByFree(h, f, goDir, tc, order) ==
    Then(Stat(f, Abs(goDir)), LAMBDA st :
        IF IsNotExist(st) THEN LoadFailed(h, "NotExist")
        ELSE IF st # "ok" THEN LoadFailed(h, "panic")
        ELSE IF f[Abs(goDir)].kind # "dir" THEN LoadFailed(h, "NotDirectory")
        ELSE Then(ParseDir(f, <<>>, Abs(goDir)), LAMBDA parse :
             Then([h EXCEPT !.fsets = Append(@, parse.names)], LAMBDA h1 :
                 IF parse.err # "" THEN LoadFailed(h1, "ParseFailure")
                 ELSE IF DOMAIN parse.pkgs = {} THEN LoadFailed(h1, "NoFiles")
                 ELSE LoadGoDirectoryIn(h1, f, Abs(goDir), tc, order,
                                        Len(h.fsets) + 1, parse))))

\* the single-file pass of the loader on the SrcFile of a Package
LoadSrcFile(n, f, codePath, tc) ==
    Then(PackageNewSrcFile(n.h, n.pkg, codePath), LAMBDA nf :
    Then(parseSourceFileByFree(nf.h, f, nf.file, tc), LAMBDA r :
        IF r.err # "" THEN LoadFailed(r.h, r.err)
        ELSE [h |-> r.h, err |-> "", pkgs |-> <<n.pkg>>, file |-> nf.file]))

\* step 2 of the single-file loader: the Package of the Program
LoadInModule(h, f, codePath, tc, program) ==
    Then(inferGoPkgInfo(f, program.module, codePath), LAMBDA info :
        IF info.err # "" THEN LoadFailed(h, "PathResolution")
        ELSE Then(ProgramNewPackage([h EXCEPT !.pkgSet = program.pkgSet],
                                    info.pkgName, info.pkgPath, info.pkgDir),
                  LAMBDA n : LoadSrcFile(n, f, codePath, tc)))

\* step 3 of the single-file loader: a Package of the directory of the file
LoadStandalone(h, f, codePath, tc) ==
    Then(readGoPackageIn(f, codePath), LAMBDA pkgName :
        IF pkgName.err # "" THEN LoadFailed(h, pkgName.err)
        ELSE Then(StandaloneNewPackage(h, pkgName.name, Dir(codePath), Dir(codePath)),
                  LAMBDA n : LoadSrcFile(n, f, codePath, tc)))

loadSourceFileByFree(h, f, codeFile, tc) ==
    LET codePath == Abs(codeFile)
        st       == Stat(f, codePath)
    IN  IF IsNotExist(st) THEN LoadFailed(h, "NotExist")
        ELSE IF st # "ok" THEN LoadFailed(h, "panic")
        ELSE IF f[codePath].kind = "dir" THEN LoadFailed(h, "WrongKind")
        ELSE IF ~HasSuffix(codePath, GoFileSuffix) THEN LoadFailed(h, "WrongKind")
        ELSE Then(initProgram(f, Dir(codePath)), LAMBDA program :
                 IF program.err = ""
                 THEN LoadInModule(h, f, codePath, tc, program)
                 ELSE LoadStandalone(h, f, codePath, tc))

\* filepath.Walk in findPackagesAndGoFiles: the regular files below rootDir
\* whose paths end in ".go"; every directory of the model can be read
WalkGoFiles(f, rootDir) ==
    SelectSeq(SortedPaths,
              LAMBDA p : /\ p \in DOMAIN f
                         /\ f[p].kind = "file"
                         /\ HasPrefix(p, IF rootDir = Slash THEN Slash ELSE rootDir \o Slash)
                         /\ HasSuffix(p, GoFileSuffix))

\* findPackagesAndGoFiles: the directories of the files, each with its files
findPackagesAndGoFiles(f, rootDir) ==
    LET goFiles == WalkGoFiles(f, rootDir)
    IN  [d \in {Dir(goFiles[i]) : i \in 1..Len(goFiles)} |->
            SelectSeq(goFiles, LAMBDA p : Dir(p) = d)]

\* the loop of the recursive loader over the directories; all of them are
\* parsed into the one FileSet of the call
RECURSIVE LoadDirectories(_, _, _, _, _, _, _)
LoadDirectories(acc, f, module, fileSet, dirs, tc, order) ==
    IF dirs = <<>> THEN acc
    ELSE Then(ParseDir(f, acc.h.fsets[fileSet], Head(dirs)), LAMBDA parse :
         Then([acc EXCEPT !.h.fsets[fileSet] = parse.names], LAMBDA acc1 :
             IF parse.err # "" \/ DOMAIN parse.pkgs = {}
             THEN LoadDirectories(acc1, f, module, fileSet, Tail(dirs), tc, order)
             ELSE Then(inferGoPkgInfo(f, module, Head(dirs)), LAMBDA info :
                      IF info.err # ""
                      THEN LoadDirectories(acc1, f, module, fileSet, Tail(dirs), tc, order)
                      ELSE Then(LoadAstPackages(
                                    acc1, f,
                                    [fileSet |-> fileSet,
                                     astPkgs |-> parse.pkgs,
                                     pkgPath |-> info.pkgPath,
                                     pkgName |-> info.pkgName,
                                     pkgDir  |-> Head(dirs)],
                                    Ordered(SortedNames, DOMAIN parse.pkgs, order.keys),
                                    tc, order), LAMBDA acc2 :
                               LoadDirectories(acc2, f, module, fileSet, Tail(dirs),
                                               tc, order)))))

\* step 3 of the recursive loader
LoadAllDirectoriesIn(h, f, rootDirPath, tc, order, fileSet, program) ==
    Then(findPackagesAndGoFiles(f, rootDirPath), LAMBDA found :
    Then(LoadDirectories(
             [h |-> [h EXCEPT !.pkgSet = program.pkgSet], pkgs |-> <<>>],
             f, program.module, fileSet,
             Ordered(SortedDirs,
                     {d \in DOMAIN found : Len(d) > 0 /\ Len(found[d]) > 0},
                     order.dirs),
             tc, order), LAMBDA r :
        [h |-> r.h, err |-> "", pkgs |-> r.pkgs, file |-> 0]))

loadAllDirectoriesByFree(h, f, rootDir, tc, order) ==
    Then(Stat(f, Abs(rootDir)), LAMBDA st :
        IF IsNotExist(st) THEN LoadFailed(h, "NotExist")
        ELSE IF st # "ok" THEN LoadFailed(h, "panic")
        ELSE IF f[Abs(rootDir)].kind # "dir" THEN LoadFailed(h, "NotDirectory")
        ELSE Then([h EXCEPT !.fsets = Append(@, <<>>)], LAMBDA h1 :
             Then(initProgram(f, Abs(rootDir)), LAMBDA program :
                 IF program.err # "" THEN LoadFailed(h1, program.err)
                 ELSE LoadAllDirectoriesIn(h1, f, Abs(rootDir), tc, order,
                                           Len(h.fsets) + 1, program))))

-----------------------------------------------------------------------------
\* Bounds and the inputs the operations are called with

\* the number of passes that reach time.Now() in one behaviour
MaxLoads == 2

\* the number of lines of a manifest
MaxLines == 3

\* the number of members handed to SrcFile.update
MaxMembers == 2

ModR == Join(DirR, GoModFileName)

ModS == Join(DirS, GoModFileName)

\* a file whose name ends in go.mod without being go.mod
XMod == Join(DirR, <<"x">> \o GoModFileName)

\* a file whose name does not end in go.mod
SumR == Join(DirR, <<"g", "o", ".", "s", "u", "m">>)

\* a path that does not exist in any of the file systems
GoneMod == Join(Join(DirR, <<"t">>), GoModFileName)

\* a path below a regular file
UnderMod == Join(ModR, GoModFileName)

LineModule == ModulePrefix \o <<"m">>

LineGo == VersionPrefix \o <<"1">>

LineDep == TabString \o <<"d", " ", "v", "1">>

LineIndirect == TabString \o <<"i", " ", "v", "0", " ", "/", "/", " ">> \o GoModIndirect

\* a dependency line with two spaces between the path and the version
LineWide == TabString \o <<"e", " ", " ", "v", "2">>

\* a tab-indented line with one token
LineOne == TabString \o <<"x">>

ManifestLines == {LineModule, LineGo, LineDep, LineIndirect, LineWide, LineOne}

\* the manifest texts: up to MaxLines lines joined by the newline; the text of
\* no line is the empty file
Manifests ==
    {JoinLines(ls, NewLine) : ls \in UNION {[1..n -> ManifestLines] : n \in 0..MaxLines}}

BaseFS ==
    (Root :> DirEntry) @@ (DirR :> DirEntry) @@ (DirS :> DirEntry)

\* where the manifest text is placed
Placements == {{}, {ModR}, {ModS}, {ModR, ModS}, {XMod}, {SumR}}

ModulePaths == {ModR, ModS, XMod, SumR, GoneMod, UnderMod, DirR}

StartDirs == {DirR, DirS, ModR, <<>>}

InitMod ==
    /\ \E text \in Manifests, where \in Placements :
          fs = [p \in where |-> FileEntry(text)] @@ BaseFS
    /\ call = [op |-> "init"]
    /\ ret = [err |-> ""]
    /\ pkgSet = NoPkgSet
    /\ pkgs = <<>>
    /\ srcs = <<>>
    /\ fsets = <<>>
    /\ clock = 0

CallNewModule ==
    \E p \in ModulePaths :
        /\ call.op = "init"
        /\ call' = [op |-> "newModule", path |-> p]
        /\ ret' = newModule(fs, p)
        /\ UNCHANGED <<fs, heapVars>>

CallGoModFileOf ==
    \E d \in StartDirs \ {<<>>} :
        /\ call.op = "init"
        /\ call' = [op |-> "goModFileOf", path |-> d]
        /\ ret' = goModFileOf(fs, Abs(d))
        /\ UNCHANGED <<fs, heapVars>>

CallInitProgram ==
    \E d \in StartDirs :
        /\ call.op = "init"
        /\ call' = [op |-> "initProgram", path |-> d]
        /\ ret' = initProgram(fs, d)
        /\ UNCHANGED <<fs, heapVars>>

\* each behaviour applies one function to one file system and one argument
NextMod ==
    \/ CallNewModule
    \/ CallGoModFileOf
    \/ CallInitProgram

SpecMod == InitMod /\ [][NextMod]_vars

-----------------------------------------------------------------------------
\* The registries and the passes: one Program, its Packages and their files

P1 == Join(DirR, <<"a">> \o GoFileSuffix)

\* a file whose path has the path of P1 as a proper prefix
P2 == P1 \o GoFileSuffix

GoFiles == {P1, P2}

\* the files of the directory in the order parser.ParseDir adds them to the
\* FileSet
DirFiles == <<P1, P2>>

TextA == JoinLines(<<PackageKeyword \o <<"a">>, ImportKeyword \o Quote(<<"f">>)>>, NewLine)

TextB ==
    JoinLines(<<PackageKeyword \o <<"a">>,
                ImportKeyword \o Quote(<<"f">>),
                ImportKeyword \o Quote(<<"o">>)>>, NewLine)

\* a text the parser rejects
TextBad == JoinLines(<<PackageKeyword \o <<"a">>, <<")">>>>, NewLine)

TreeA == ParseFile(TextA)

TreeB == ParseFile(TextB)

\* the tree parser.ParseDir built of a file, from the text it then had
ParsedTree(p) ==
    IF p = P1 THEN TreeA ELSE TreeB

\* what the files may hold when a pass reads them: the text that was parsed, a
\* text the parser rejects, or nothing at all; or the file is gone
GoWorlds ==
    {f1 @@ f2 @@ BaseFS :
        f1 \in {(P1 :> FileEntry(TextA)), (P1 :> FileEntry(TextBad)), (P1 :> FileEntry(<<>>))},
        f2 \in {(P2 :> FileEntry(TextB)), [x \in {} |-> DirEntry]}}

PathM == <<"m">>

PathMB == <<"m", "/", "b">>

\* the arguments Program.newPackage is called with: two import paths, the
\* first of them with two different names and directories
PkgArgs ==
    {[pkgName |-> <<"a">>, pkgPath |-> PathM, dirPath |-> DirR],
     [pkgName |-> <<"s">>, pkgPath |-> PathM, dirPath |-> DirS],
     [pkgName |-> <<"b">>, pkgPath |-> PathMB, dirPath |-> DirR]}

\* the Package the loaders ask for
LoadArgs ==
    {a \in PkgArgs : a.pkgName = <<"a">>}

TypeChecks == [typePkg : BOOLEAN, typeErr : BOOLEAN]

H == [pkgSet |-> pkgSet, pkgs |-> pkgs, srcs |-> srcs, fsets |-> fsets, clock |-> clock]

SetHeap(h) ==
    /\ pkgSet' = h.pkgSet
    /\ pkgs' = h.pkgs
    /\ srcs' = h.srcs
    /\ fsets' = h.fsets
    /\ clock' = h.clock

PosIn(names, p) ==
    CHOOSE i \in 1..Len(names) : names[i] = p

Init ==
    /\ fs \in GoWorlds
    /\ call = [op |-> "init"]
    /\ ret = [err |-> ""]
    /\ pkgSet = NewPkgSet
    /\ pkgs = <<>>
    /\ srcs = <<>>
    /\ fsets = <<>>
    /\ clock = 0

\* Program.newPackage called with one of the arguments A
NewPackageWith(A) ==
    \E a \in A :
      \E r \in {ProgramNewPackage(H, a.pkgName, a.pkgPath, a.dirPath)} :
        /\ SetHeap(r.h)
        /\ call' = [op |-> "newPackage", args |-> a]
        /\ ret' = [err |-> "", pkg |-> r.pkg]
        /\ UNCHANGED fs

\* one iteration of the loop of the directory loaders over the packages
\* parser.ParseDir found: create or get the Package, hand it the FileSet of
\* the parse, run the package pass. A are the Packages asked for, Sets the
\* file sets of astPkg, TCs the results of the type checker. ret.returned says
\* whether the loop appends the Package to the result of the loader.
LoadPackageWith(A, Sets, TCs) ==
    /\ Len(fsets) < MaxLoads
    /\ \E a \in A, S \in Sets, tc \in TCs :
        \E order \in Orders(S) :
          \E n \in {ProgramNewPackage(H, a.pkgName, a.pkgPath, a.dirPath)} :
            LET fileSet == Len(n.h.fsets) + 1
                h1      == [n.h EXCEPT !.fsets = Append(@, DirFiles),
                                       !.pkgs[n.pkg].fileSet = fileSet]
                files   == [i \in 1..Len(order) |->
                               AstFile(ParsedTree(order[i]), fileSet,
                                       PosIn(DirFiles, order[i]))]
            IN  /\ \E importOrder \in Orders(NonEmptyImports(files)) :
                     \E r \in {parseGoPackageByFree(h1, fs, n.pkg, files, tc, importOrder)} :
                        /\ SetHeap(r.h)
                        /\ ret' = [err |-> r.err, pkg |-> n.pkg,
                                   returned |-> r.err = "",
                                   checked |-> [i \in 1..Len(r.astFiles) |->
                                                   Filename(r.h.fsets[r.astFiles[i].fset],
                                                            r.astFiles[i].Pos)]]
                /\ call' = [op |-> "loadPackage", args |-> a, files |-> order, tc |-> tc]
                /\ UNCHANGED fs

\* the single-file loader once the Package is inferred: create or get the
\* Package and the SrcFile, run the single-file pass
LoadSourceFileWith(A, Files, TCs) ==
    /\ Len(fsets) < MaxLoads
    /\ \E a \in A, p \in Files, tc \in TCs :
        \E n \in {ProgramNewPackage(H, a.pkgName, a.pkgPath, a.dirPath)} :
          \E nf \in {PackageNewSrcFile(n.h, n.pkg, p)} :
            \E r \in {parseSourceFileByFree(nf.h, fs, nf.file, tc)} :
              /\ SetHeap(r.h)
              /\ call' = [op |-> "loadFile", args |-> a, files |-> <<p>>, tc |-> tc]
              /\ ret' = [err |-> r.err, pkg |-> n.pkg]
              /\ UNCHANGED fs

AllFileSets == (SUBSET GoFiles) \ {{}}

LoadPackage == LoadPackageWith(LoadArgs, AllFileSets, TypeChecks)

LoadSourceFile == LoadSourceFileWith(LoadArgs, GoFiles, TypeChecks)

\* the passes, run and re-run on one Package of the Program
Next ==
    \/ LoadPackage
    \/ LoadSourceFile

Spec == Init /\ [][Next]_vars

\* the file system in which every file holds the text that was parsed
GoodFS ==
    (P1 :> FileEntry(TextA)) @@ (P2 :> FileEntry(TextB)) @@ BaseFS

\* a type check that yields a package and no error
TcOk == [typePkg |-> TRUE, typeErr |-> FALSE]

InitGood ==
    /\ fs = GoodFS
    /\ call = [op |-> "init"]
    /\ ret = [err |-> ""]
    /\ pkgSet = NewPkgSet
    /\ pkgs = <<>>
    /\ srcs = <<>>
    /\ fsets = <<>>
    /\ clock = 0

NewPackage == NewPackageWith(PkgArgs)

RegLoadPackage == LoadPackageWith(PkgArgs, {GoFiles}, {TcOk})

RegLoadSourceFile == LoadSourceFileWith(PkgArgs, {P1}, {TcOk})

\* the registry of the Program: packages created directly and by the loaders
NextReg ==
    \/ NewPackage
    \/ RegLoadPackage
    \/ RegLoadSourceFile

SpecReg == InitGood /\ [][NextReg]_vars

MemberA == [Name |-> "A", Pos |-> 1]

MemberB == [Name |-> "B", Pos |-> 2]

MemberNoPos == [Name |-> "N", Pos |-> NoPos]

Members == {MemberA, MemberB, MemberNoPos, NilMember}

\* the member maps, as the sequences in which a map of up to MaxMembers
\* members may be iterated
MemberSeqs ==
    UNION {{q \in [1..n -> Members] : \A i, j \in 1..n : q[i] = q[j] => i = j} :
              n \in 0..MaxMembers}

\* SrcFile.update with a member map, on a file whose text and tree stay
UpdateMembers ==
    \E file \in 1..Len(srcs), ms \in MemberSeqs :
        /\ \A k \in 1..Len(ms) : ms[k] # NilMember => ~ContainPanics(H, file, ms[k].Pos)
        /\ SetHeap(update(H, file, srcs[file].code, srcs[file].syntax, ms))
        /\ call' = [op |-> "update", file |-> file, members |-> ms]
        /\ ret' = [err |-> ""]
        /\ UNCHANGED fs

UpdLoadPackage == LoadPackageWith(LoadArgs, {GoFiles}, {TcOk})

UpdLoadSourceFile == LoadSourceFileWith(LoadArgs, GoFiles, {TcOk})

\* the members of the files of a loaded Package
NextUpd ==
    \/ UpdLoadPackage
    \/ UpdLoadSourceFile
    \/ UpdateMembers

SpecUpd == InitGood /\ [][NextUpd]_vars

\* a file of the subdirectory
PS == Join(DirS, <<"c">> \o GoFileSuffix)

\* a path that does not exist in any of the file systems
GoneGo == Join(DirR, <<"t">> \o GoFileSuffix)

\* a path below P1, which is no directory
UnderGo == Join(P1, <<"x">> \o GoFileSuffix)

TextR == PackageKeyword \o <<"r">>

TextS == PackageKeyword \o <<"s">>

\* a package clause with a line comment after the name
TextNote ==
    JoinLines(<<PackageKeyword \o <<"a", " ">> \o LineComment \o <<" ", "n">>,
                ImportKeyword \o Quote(<<"f">>)>>, NewLine)

\* a text without a package clause
TextNone == ImportKeyword \o Quote(<<"f">>)

\* a module line whose name has no character of the keyword
LineModuleX == ModulePrefix \o <<"x">>

\* a directory two levels below the module root
DirSP == Join(DirS, <<"p">>)

\* a file that holds one of the texts, or no file
Holding(p, texts, absent) ==
    {(p :> FileEntry(t)) : t \in texts} \cup (IF absent THEN {[x \in {} |-> DirEntry]} ELSE {})

\* the trees the loaders work on: the manifest of /r is absent, names the
\* module m or x, or is empty, and each source file holds one of the texts or
\* is absent
LoadWorlds ==
    {m @@ f1 @@ f2 @@ f3 @@ (DirSP :> DirEntry) @@ BaseFS :
        m  \in Holding(ModR, {LineModule, LineModuleX, <<>>}, TRUE),
        f1 \in Holding(P1, {TextA, TextBad, TextNote, TextNone, <<>>}, TRUE),
        f2 \in Holding(P2, {TextB, TextR, TextS}, TRUE),
        f3 \in Holding(PS, {TextS, TextBad}, TRUE)}

\* the Module of a manifest of the directory, read by newModule
ModuleAt(dir) ==
    newModule((Join(dir, GoModFileName) :> FileEntry(LineModule))
                  @@ (DirSP :> DirEntry) @@ BaseFS,
              Join(dir, GoModFileName)).module

InferModules == {NoModule, ModuleAt(DirR), ModuleAt(DirS)}

LoadTargets == {P1, P2, PS, DirR, DirS, DirSP, ModR, GoneGo, UnderGo}

MapOrders == [dirs : BOOLEAN, keys : BOOLEAN, files : BOOLEAN, imports : BOOLEAN]

InitLoad ==
    /\ fs \in LoadWorlds
    /\ call = [op |-> "init"]
    /\ ret = [err |-> ""]
    /\ pkgSet = NewPkgSet
    /\ pkgs = <<>>
    /\ srcs = <<>>
    /\ fsets = <<>>
    /\ clock = 0

CallReadGoPackageIn ==
    \E p \in LoadTargets :
        /\ call.op = "init"
        /\ call' = [op |-> "readGoPackageIn", path |-> p]
        /\ ret' = readGoPackageIn(fs, p)
        /\ UNCHANGED <<fs, heapVars>>

CallInferGoPkgInfo ==
    \E m \in InferModules, p \in LoadTargets :
        /\ call.op = "init"
        /\ call' = [op |-> "inferGoPkgInfo", module |-> m, path |-> p]
        /\ ret' = inferGoPkgInfo(fs, m, p)
        /\ UNCHANGED <<fs, heapVars>>

CallLoadSourceFile ==
    /\ call.op = "init"
    /\ \E p \in LoadTargets, tc \in TypeChecks :
         \E r \in {loadSourceFileByFree(H, fs, p, tc)} :
            /\ SetHeap(r.h)
            /\ call' = [op |-> "loadSourceFileByFree", path |-> p, tc |-> tc]
            /\ ret' = [err |-> r.err, pkgs |-> r.pkgs, file |-> r.file]
            /\ UNCHANGED fs

CallLoadGoDirectory ==
    /\ call.op = "init"
    /\ \E p \in LoadTargets, tc \in TypeChecks, order \in MapOrders :
         \E r \in {loadGoDirectoryByFree(H, fs, p, tc, order)} :
            /\ SetHeap(r.h)
            /\ call' = [op |-> "loadGoDirectoryByFree", path |-> p, tc |-> tc]
            /\ ret' = [err |-> r.err, pkgs |-> r.pkgs, file |-> r.file]
            /\ UNCHANGED fs

CallLoadAllDirectories ==
    /\ call.op = "init"
    /\ \E p \in LoadTargets, tc \in TypeChecks, order \in MapOrders :
         \E r \in {loadAllDirectoriesByFree(H, fs, p, tc, order)} :
            /\ SetHeap(r.h)
            /\ call' = [op |-> "loadAllDirectoriesByFree", path |-> p, tc |-> tc]
            /\ ret' = [err |-> r.err, pkgs |-> r.pkgs, file |-> r.file]
            /\ UNCHANGED fs

CallFindPackagePath ==
    \E p \in LoadTargets :
        /\ call.op = "init"
        /\ call' = [op |-> "findPackagePath", path |-> p]
        /\ ret' = [err |-> "", path |-> findPackagePath(fs, p)]
        /\ UNCHANGED <<fs, heapVars>>

\* each behaviour applies one function to one tree and one argument
NextLoad ==
    \/ CallFindPackagePath
    \/ CallReadGoPackageIn
    \/ CallInferGoPkgInfo
    \/ CallLoadSourceFile
    \/ CallLoadGoDirectory
    \/ CallLoadAllDirectories

SpecLoad == InitLoad /\ [][NextLoad]_vars

-----------------------------------------------------------------------------
\* Concurrent callers of the registries. Program.newPackage and
\* Package.newSrcFile take no lock: a call is the lookup, the write and the
\* read of the result, and the steps of the calls of several goroutines
\* interleave unless the callers hold a lock of their own around each call.

\* the number of goroutines, and of the calls they make in one behaviour
MaxWorkers == 2

MaxCalls == 3

Workers == 1..MaxWorkers

\* a goroutine outside of a call that has made none
Idle == [pc |-> "idle", fn |-> "", args |-> <<>>, ok |-> FALSE]

\* a write that does not look at the result of the lookup
InsertPackageAlways(h, ok, pkgName, pkgPath, dirPath) ==
    [h EXCEPT !.pkgs = Append(@, newPackage(TRUE, pkgName, pkgPath, dirPath)),
              !.pkgSet = MapPut(@, pkgPath, Len(h.pkgs) + 1)]

\* Program.newPackage after the lookup has yielded ok: the write of a new
\* Package under the path, if ok is false
InsertPackage(h, ok, pkgName, pkgPath, dirPath) ==
    IF ok THEN h
    ELSE [h EXCEPT !.pkgs = Append(@, newPackage(TRUE, pkgName, pkgPath, dirPath)),
                   !.pkgSet = MapPut(@, pkgPath, Len(h.pkgs) + 1)]

\* Package.newSrcFile after the lookup has yielded ok
InsertSrcFile(h, ok, pkg, srcPath) ==
    IF ok THEN h
    ELSE [h EXCEPT !.srcs = Append(@, newSrcFile(pkg, srcPath)),
                   !.pkgs[pkg].srcFiles = MapPut(@, srcPath, Len(h.srcs) + 1)]

\* the map a call works on: 0 is pkgSet, i the srcFiles of Package i
MapOf(c) ==
    IF c.fn = "newPackage" THEN 0 ELSE c.args.pkg

\* the calls a goroutine may make on the heap
RegistryCalls(h) ==
    {[pc |-> "called", fn |-> "newPackage", args |-> a, ok |-> FALSE] : a \in PkgArgs}
       \cup {[pc |-> "called", fn |-> "newSrcFile", args |-> [pkg |-> i, path |-> p],
              ok |-> FALSE] : i \in 1..Len(h.pkgs), p \in {P1}}

InitWorkers ==
    /\ fs = GoodFS
    /\ \E sync \in BOOLEAN :
          call = [op |-> "workers", sync |-> sync, lock |-> 0, dead |-> FALSE,
                  begun |-> 0, at |-> [w \in Workers |-> Idle]]
    /\ ret = [err |-> "", got |-> [w \in Workers |-> 0]]
    /\ pkgSet = NewPkgSet
    /\ pkgs = <<>>
    /\ srcs = <<>>
    /\ fsets = <<>>
    /\ clock = 0

\* a goroutine enters a call; where the callers synchronize, it takes the lock
Begin(w) ==
    /\ ~call.dead
    /\ call.at[w].pc = "idle"
    /\ call.begun < MaxCalls
    /\ call.sync => call.lock = 0
    /\ \E c \in RegistryCalls(H) :
          call' = [call EXCEPT !.at[w] = c,
                               !.begun = @ + 1,
                               !.lock = IF call.sync THEN w ELSE 0]
    /\ UNCHANGED <<fs, ret, heapVars>>

\* `_, ok := prog.pkgSet[pkgPath]` and `_, ok := pkg.srcFiles[srcPath]`
Lookup(w) ==
    /\ ~call.dead
    /\ call.at[w].pc = "called"
    /\ call' = [call EXCEPT !.at[w].pc = "checked",
                            !.at[w].ok =
                                IF call.at[w].fn = "newPackage"
                                THEN PkgRegistered(H, call.at[w].args.pkgPath)
                                ELSE SrcRegistered(H, call.at[w].args.pkg,
                                                   call.at[w].args.path)]
    /\ UNCHANGED <<fs, ret, heapVars>>

\* the write of the new object into the map, where the lookup found none
Store(w) ==
    /\ ~call.dead
    /\ call.at[w].pc = "checked"
    /\ SetHeap(IF call.at[w].fn = "newPackage"
               THEN InsertPackage(H, call.at[w].ok, call.at[w].args.pkgName,
                                  call.at[w].args.pkgPath, call.at[w].args.dirPath)
               ELSE InsertSrcFile(H, call.at[w].ok, call.at[w].args.pkg,
                                  call.at[w].args.path))
    /\ call' = [call EXCEPT !.at[w].pc = "stored"]
    /\ UNCHANGED <<fs, ret>>

\* a write into a map that another goroutine is using at the same time is a
\* data race; the runtime may end the program with "concurrent map writes"
Fault(w) ==
    /\ ~call.dead
    /\ call.at[w].pc = "checked"
    /\ ~call.at[w].ok
    /\ \E v \in Workers \ {w} :
          call.at[v].pc # "idle" /\ MapOf(call.at[v]) = MapOf(call.at[w])
    /\ call' = [call EXCEPT !.dead = TRUE]
    /\ UNCHANGED <<fs, ret, heapVars>>

\* `return prog.pkgSet[pkgPath]` and `return pkg.srcFiles[srcPath]`; the
\* goroutine leaves the call and gives up the lock it holds
Return(w) ==
    /\ ~call.dead
    /\ call.at[w].pc = "stored"
    /\ ret' = [ret EXCEPT !.got[w] =
                  IF call.at[w].fn = "newPackage"
                  THEN pkgSet[call.at[w].args.pkgPath]
                  ELSE pkgs[call.at[w].args.pkg].srcFiles[call.at[w].args.path]]
    /\ call' = [call EXCEPT !.at[w].pc = "idle", !.lock = 0]
    /\ UNCHANGED <<fs, heapVars>>

BeginCall == \E w \in Workers : Begin(w)

LookupInMap == \E w \in Workers : Lookup(w)

StoreInMap == \E w \in Workers : Store(w)

FaultInMap == \E w \in Workers : Fault(w)

ReturnFromMap == \E w \in Workers : Return(w)

\* goroutines that call the registries of one Program
NextWorkers ==
    \/ BeginCall
    \/ LookupInMap
    \/ StoreInMap
    \/ FaultInMap
    \/ ReturnFromMap

SpecWorkers == InitWorkers /\ [][NextWorkers]_vars

-----------------------------------------------------------------------------
\* The type check of the passes, on the trees of files that parse

\* what the checker may find in a package apart from its imports
Defects == [decl : BOOLEAN, body : BOOLEAN]

\* the trees of the files, parsed from their texts
TreesOf(f, S) ==
    [i \in 1..Len(Ordered(SortedPaths, S, FALSE)) |->
        AstFile(ParseFile(f[Ordered(SortedPaths, S, FALSE)[i]].bytes), 1, i)]

\* step 3 of the package pass and of the single-file pass on the files S:
\* the result of Check with the default configuration, and IllTyped as the
\* pass derives it
CallCheck ==
    /\ call.op = "init"
    /\ \E S \in (SUBSET {P1, P2, PS}) \ {{}}, found \in Defects, pass \in {"package", "file"} :
          /\ \A p \in S : p \in DOMAIN fs /\ fs[p].bytes # <<>> /\ ParseFile(fs[p].bytes).err = ""
          /\ pass = "file" => Cardinality(S) = 1
          /\ \E r \in {Check(newDefaultTypeConfig, TreesOf(fs, S), found)} :
                ret' = [err |-> "",
                        typePkg |-> r.typePkg,
                        typeErr |-> r.typeErr,
                        IllTyped |-> IF pass = "package"
                                     THEN TypeCheckInfo(NewLoadInfo(NoLoadInfo, 0), r).IllTyped
                                     ELSE FileIllTyped(r)]
          /\ call' = [op |-> "Check", files |-> S, found |-> found, pass |-> pass]
    /\ UNCHANGED <<fs, heapVars>>

NextCheck ==
    \/ CallCheck

SpecCheck == InitLoad /\ [][NextCheck]_vars

-----------------------------------------------------------------------------
\* The SrcFiles the single-file loaders hand out

\* LoadBaseFile: the heap after the call, the error ("" for nil) and the
\* SrcFile returned. Its Package is made by newPackage(nil, ...) and is given
\* neither the FileSet of the parse nor a LoadInfo.
LoadBaseFile(h, f, srcFile, tc) ==
    IF IsNotExist(Stat(f, srcFile)) THEN LoadFailed(h, "NotExist")
    ELSE IF ~HasSuffix(srcFile, GoFileSuffix) THEN LoadFailed(h, "WrongKind")
    ELSE LET srcPath == Abs(srcFile)
             dirPath == Dir(srcPath)
             rd      == ReadFile(f, srcPath)
         IN  IF rd.err # "" THEN LoadFailed(h, "Read")
             ELSE Then(ParseFile(rd.bytes), LAMBDA tree :
                      IF tree.err # "" THEN LoadFailed(h, "ParseFailure")
                      ELSE IF ~tc.typeErr /\ ~tc.typePkg THEN LoadFailed(h, "NoTypesPackage")
                      ELSE Then([h EXCEPT !.fsets = Append(@, <<srcPath>>)], LAMBDA h1 :
                           Then(StandaloneNewPackage(h1, tree.Name, dirPath, dirPath), LAMBDA n :
                           Then(PackageNewSrcFile(n.h, n.pkg, srcPath), LAMBDA nf :
                               [h    |-> update(nf.h, nf.file, rd.bytes,
                                                AstFile(tree, Len(h.fsets) + 1, 1), <<>>),
                                err  |-> "",
                                pkgs |-> <<>>,
                                file |-> nf.file]))))

\* the positions Contain is asked about
TokenPositions == {NoPos, 1, 2}

\* the loaders that return a SrcFile
FileLoaders == {"LoadBaseFile", "loadSourceFileByFree"}

CallLoadBaseFile ==
    /\ call.op = "init"
    /\ \E p \in LoadTargets, tc \in TypeChecks :
         \E r \in {LoadBaseFile(H, fs, p, tc)} :
            /\ SetHeap(r.h)
            /\ call' = [op |-> "LoadBaseFile", path |-> p, tc |-> tc]
            /\ ret' = [err |-> r.err, pkgs |-> r.pkgs, file |-> r.file]
            /\ UNCHANGED fs

\* Contain on the SrcFile a loader returned; the nil FileSet of its Package
\* is dereferenced for a valid position
ContainLoaded ==
    /\ call.op \in FileLoaders
    /\ ret.err = ""
    /\ \E pos \in TokenPositions :
          /\ call' = [op |-> "Contain", file |-> ret.file, pos |-> pos, loader |-> call.op]
          /\ ret' = IF ContainPanics(H, ret.file, pos)
                    THEN [err |-> "panic", in |-> FALSE]
                    ELSE [err |-> "", in |-> Contain(H, ret.file, pos)]
    /\ UNCHANGED <<fs, heapVars>>

\* whether update reaches a member whose position Contain cannot look up
UpdatePanics(h, file, members) ==
    \E k \in 1..Len(members) :
        members[k] # NilMember /\ ContainPanics(h, file, members[k].Pos)

\* update with a member map on the SrcFile a loader returned; a panic leaves
\* the fields assigned before the loop over the members
UpdateLoaded ==
    /\ call.op \in FileLoaders
    /\ ret.err = ""
    /\ \E ms \in MemberSeqs :
          /\ call' = [op |-> "update", file |-> ret.file, members |-> ms, loader |-> call.op]
          /\ IF UpdatePanics(H, ret.file, ms)
             THEN /\ SetHeap(update(H, ret.file, srcs[ret.file].code,
                                    srcs[ret.file].syntax, <<>>))
                  /\ ret' = [err |-> "panic"]
             ELSE /\ SetHeap(update(H, ret.file, srcs[ret.file].code,
                                    srcs[ret.file].syntax, ms))
                  /\ ret' = [err |-> ""]
    /\ UNCHANGED fs

\* a single-file loader, then a call on the SrcFile it returned
NextFiles ==
    \/ CallLoadBaseFile
    \/ CallLoadSourceFile
    \/ ContainLoaded
    \/ UpdateLoaded

SpecFiles == InitLoad /\ [][NextFiles]_vars

-----------------------------------------------------------------------------
\* The upward search for the manifest, one probe at a time

ModRoot == Join(Root, GoModFileName)

ModSP == Join(DirSP, GoModFileName)

\* a directory that does not exist in any of the trees
GoneDir == Join(DirR, <<"t">>)

\* a path below a regular file
UnderFile == Join(PS, <<"x">>)

\* the trees of the search: a source file in /r/s, and a manifest in any of
\* the directories from the root down to /r/s/p
SearchWorlds ==
    {[p \in where |-> FileEntry(LineModule)]
         @@ (PS :> FileEntry(TextS)) @@ (DirSP :> DirEntry) @@ BaseFS :
        where \in SUBSET {ModRoot, ModR, ModS, ModSP}}

SearchStarts == {Root, DirR, DirS, DirSP, PS, GoneDir, UnderFile}

InitSearch ==
    /\ fs \in SearchWorlds
    /\ call = [op |-> "init"]
    /\ ret = [err |-> ""]
    /\ pkgSet = NoPkgSet
    /\ pkgs = <<>>
    /\ srcs = <<>>
    /\ fsets = <<>>
    /\ clock = 0

\* the condition of the loops of goModFileOf and findGoModFileOf
InLoop(dirPath) ==
    Len(dirPath) > 0 /\ dirPath # Slash /\ dirPath # <<".">> /\ dirPath # <<".", ".">>

\* the directory the loops go on with
NextDir(dirPath) ==
    Dir(dirPath)

\* a search from the path: the directory it is at, the directories it probed
Search(op, start, done) ==
    [op |-> op, start |-> start, at |-> Abs(start), probed |-> <<>>, done |-> done]

\* goModFileOf up to its loop
BeginGoModFileOf ==
    \E cwd \in SearchStarts :
        /\ call.op = "init"
        /\ call' = Search("goModFileOf", cwd, FALSE)
        /\ UNCHANGED <<fs, ret, heapVars>>

\* one test of the condition of the loop of goModFileOf, and the iteration
GoModFileOfStep ==
    /\ call.op = "goModFileOf"
    /\ ~call.done
    /\ IF ~InLoop(call.at)
       THEN /\ call' = [call EXCEPT !.done = TRUE]
            /\ ret' = [err |-> "NoGoMod", path |-> <<>>]
       ELSE IF ~IsNotExist(Stat(fs, Join(call.at, GoModFileName)))
       THEN /\ call' = [call EXCEPT !.probed = Append(@, call.at), !.done = TRUE]
            /\ ret' = [err |-> "", path |-> call.at]
       ELSE /\ call' = [call EXCEPT !.probed = Append(@, call.at), !.at = NextDir(call.at)]
            /\ UNCHANGED ret
    /\ UNCHANGED <<fs, heapVars>>

\* findGoModFileOf up to its loop: a path that does not exist is given up
BeginFindGoModFileOf ==
    \E dirPath \in SearchStarts :
        /\ call.op = "init"
        /\ IF IsNotExist(Stat(fs, dirPath))
           THEN /\ call' = Search("findGoModFileOf", dirPath, TRUE)
                /\ ret' = [err |-> "", path |-> NoneString]
           ELSE /\ call' = Search("findGoModFileOf", dirPath, FALSE)
                /\ UNCHANGED ret
        /\ UNCHANGED <<fs, heapVars>>

\* one test of the condition of the loop of findGoModFileOf, and the iteration
FindGoModFileOfStep ==
    /\ call.op = "findGoModFileOf"
    /\ ~call.done
    /\ IF ~InLoop(call.at)
       THEN /\ call' = [call EXCEPT !.done = TRUE]
            /\ ret' = [err |-> "", path |-> NoneString]
       ELSE IF ~IsNotExist(Stat(fs, Join(call.at, GoModFileName)))
       THEN /\ call' = [call EXCEPT !.probed = Append(@, call.at), !.done = TRUE]
            /\ ret' = [err |-> "", path |-> Join(call.at, GoModFileName)]
       ELSE IF NextDir(call.at) = call.at
       THEN /\ call' = [call EXCEPT !.probed = Append(@, call.at), !.done = TRUE]
            /\ ret' = [err |-> "", path |-> NoneString]
       ELSE /\ call' = [call EXCEPT !.probed = Append(@, call.at), !.at = NextDir(call.at)]
            /\ UNCHANGED ret
    /\ UNCHANGED <<fs, heapVars>>

NextSearch ==
    \/ BeginGoModFileOf
    \/ GoModFileOfStep
    \/ BeginFindGoModFileOf
    \/ FindGoModFileOfStep

SpecSearch == InitSearch /\ [][NextSearch]_vars

\* a search that was begun goes on: nothing but its own loop stops it
FairSearch ==
    SpecSearch /\ WF_vars(GoModFileOfStep) /\ WF_vars(FindGoModFileOfStep)

-----------------------------------------------------------------------------
\* Properties of the manifest reader and of initProgram, under SpecMod

\* the path and its proper ancestors, nearest first
SelfAndAncestors(p) ==
    <<p>> \o Ancestors(p)

\* whether p names nothing: it is no entry and no path below a regular file
Missing(f, p) ==
    /\ p \notin DOMAIN f
    /\ \A i \in 1..Len(Ancestors(p)) :
          Ancestors(p)[i] \in DOMAIN f => f[Ancestors(p)[i]].kind = "dir"

IsFile(f, p) ==
    p \in DOMAIN f /\ f[p].kind = "file"

IsDir(f, p) ==
    p \in DOMAIN f /\ f[p].kind = "dir"

\* the directories, from d upward, that hold a manifest
ManifestDirs(f, d) ==
    {i \in 1..Len(SelfAndAncestors(d)) : IsFile(f, Join(SelfAndAncestors(d)[i], GoModFileName))}

NearestManifestDir(f, d) ==
    SelfAndAncestors(d)[CHOOSE i \in ManifestDirs(f, d) : \A j \in ManifestDirs(f, d) : i <= j]

\* C7: initProgram(D) on a directory D that has a readable, non-empty go.mod in
\* D or an ancestor succeeds, and its Module has the directory of the nearest
\* manifest as RootPath and the manifest's path as GoModFile.
InitProgramFindsManifest ==
    (/\ call.op = "initProgram"
     /\ IsDir(fs, call.path)
     /\ ManifestDirs(fs, call.path) # {}
     /\ fs[Join(NearestManifestDir(fs, call.path), GoModFileName)].bytes # <<>>)
    => /\ ret.err = ""
       /\ ret.module # NoModule
       /\ ret.module.RootPath = NearestManifestDir(fs, call.path)
       /\ ret.module.GoModFile = Join(NearestManifestDir(fs, call.path), GoModFileName)

\* strings.Fields: the maximal runs of non-space characters
RECURSIVE Fields(_)
Fields(s) ==
    LET t == TrimLeft(s)
        ends == {i \in 1..Len(t) : IsSpace(t[i])}
        stop == IF ends = {} THEN Len(t) + 1 ELSE CHOOSE i \in ends : \A j \in ends : i <= j
    IN  IF t = <<>> THEN <<>>
        ELSE <<SubSeq(t, 1, stop - 1)>> \o Fields(SubSeq(t, stop, Len(t)))

\* the dependency maps the reader is said to build: a tab-indented line split
\* on whitespace, first token the path, second the version, indirect when the
\* last token is the marker
RECURSIVE SaidDeps(_, _, _)
SaidDeps(deps, lines, indirect) ==
    IF lines = <<>> THEN deps
    ELSE LET line == Head(lines)
             toks == Fields(line)
             isDep == /\ ~HasPrefix(line, ModulePrefix)
                      /\ ~HasPrefix(line, VersionPrefix)
                      /\ HasPrefix(line, TabString)
                      /\ Len(toks) >= 2
         IN  IF isDep /\ ((toks[Len(toks)] = GoModIndirect) = indirect)
             THEN SaidDeps(MapPut(deps, toks[1], toks[2]), Tail(lines), indirect)
             ELSE SaidDeps(deps, Tail(lines), indirect)

\* the module name the reader is said to record
RECURSIVE SaidName(_, _)
SaidName(name, lines) ==
    IF lines = <<>> THEN name
    ELSE IF HasPrefix(Head(lines), ModulePrefix)
    THEN SaidName(TrimSpace(SubSeq(Head(lines), Len(ModulePrefix) + 1, Len(Head(lines)))),
                  Tail(lines))
    ELSE SaidName(name, Tail(lines))

\* C8: for any manifest text, newModule records each tab-indented dependency
\* line split on whitespace (first token the path, second the version), as
\* indirect when the last token is the indirect marker and as direct otherwise,
\* and the module line sets ModuleName to the trimmed text after the keyword.
ManifestParsedByWhitespace ==
    (call.op = "newModule" /\ ret.err = "")
    => LET lines == Split(fs[call.path].bytes, NewLine)
       IN  /\ ret.module.DirectDeps = SaidDeps(NoDeps, lines, FALSE)
           /\ ret.module.IndirectDeps = SaidDeps(NoDeps, lines, TRUE)
           /\ ret.module.ModuleName = SaidName(<<>>, lines)

\* C9: newModule returns an error and no Module for a path that does not exist
\* (NotFound when nothing is there) and for a zero-byte file (Empty when the
\* file is named go.mod).
ManifestMissingOrEmptyFails ==
    call.op = "newModule"
    => /\ call.path \notin DOMAIN fs => (ret.err # "" /\ ret.module = NoModule)
       /\ Missing(fs, call.path) => ret.err = "NotFound"
       /\ (IsFile(fs, call.path) /\ fs[call.path].bytes = <<>>)
             => /\ ret.err # ""
                /\ ret.module = NoModule
                /\ Base(call.path) = GoModFileName => ret.err = "Empty"

\* C9 witness: newModule was called on an existing go.mod of zero bytes
ManifestEmptySeen ==
    /\ call.op = "newModule"
    /\ call.path = ModR
    /\ IsFile(fs, ModR)
    /\ fs[ModR].bytes = <<>>
    /\ ret.err = "Empty"

\* C10: newModule fails with WrongKind for every existing path whose file name
\* is not go.mod (stated for the files that have content, so that no other
\* error kind applies).
ManifestNameMustMatch ==
    (/\ call.op = "newModule"
     /\ IsFile(fs, call.path)
     /\ fs[call.path].bytes # <<>>
     /\ Base(call.path) # GoModFileName)
    => ret.err = "WrongKind"

-----------------------------------------------------------------------------
\* Properties of the registries and of the passes

Range(q) == {q[i] : i \in 1..Len(q)}

IsPass(c) == c.op \in {"loadPackage", "loadFile"}

\* the Package objects on the heap that a Program holds under the path
PackagesAt(all, pkgPath) ==
    {i \in 1..Len(all) : all[i].program /\ all[i].pkgPath = pkgPath}

\* C1: a call of Program.newPackage at a path that is registered returns the
\* registered Package, leaves its name, its directory, its SrcFile registry and
\* every other field as they were, whatever name and directory the call
\* passes, and leaves the registry with exactly one Package for the path.
NewPackageIsIdempotent ==
    [][(call'.op = "newPackage" /\ call'.args.pkgPath \in DOMAIN pkgSet) =>
          LET id == pkgSet[call'.args.pkgPath]
          IN  /\ ret'.pkg = id
              /\ pkgs'[id] = pkgs[id]
              /\ pkgSet' = pkgSet
              /\ PackagesAt(pkgs', call'.args.pkgPath) = {id}]_vars

\* newPackage has returned a loaded Package to a call that passed another name
\* and another directory
NewPackageReturnedLoaded ==
    /\ call.op = "newPackage"
    /\ pkgs[ret.pkg].pkgName # call.args.pkgName
    /\ pkgs[ret.pkg].dirPath # call.args.dirPath
    /\ pkgs[ret.pkg].srcFiles # NoSrcFiles

\* whether the pass of call c reads the file p of Package pkg and hands it to
\* update
ReadInPass(f, c, r, pkg, p) ==
    /\ IsPass(c)
    /\ r.pkg = pkg
    /\ p \in Range(c.files)
    /\ IsFile(f, p)
    /\ f[p].bytes # <<>>
    /\ c.op = "loadFile" => ParseFile(f[p].bytes).err = ""

\* C2: a pass on a Package keeps every SrcFile the Package had: each path
\* registered before the pass is registered after it, to the same SrcFile
\* object, and where the pass reads the file the object holds the text read
\* and a tree of the FileSet of this pass.
ReloadKeepsSrcFiles ==
    [][IsPass(call') =>
          \A i \in 1..Len(pkgs) : \A p \in DOMAIN pkgs[i].srcFiles :
             LET id == pkgs[i].srcFiles[p]
             IN  /\ p \in DOMAIN pkgs'[i].srcFiles
                 /\ pkgs'[i].srcFiles[p] = id
                 /\ srcs'[id].pkg = i
                 /\ srcs'[id].path = p
                 /\ ReadInPass(fs, call', ret', i, p) =>
                       /\ srcs'[id].code = fs[p].bytes
                       /\ srcs'[id].syntax # NoSyntax
                       /\ srcs'[id].syntax.fset = Len(fsets')]_vars

\* the first pass registered both files, the second pass has read the first
\* file again: its SrcFile is the older object and holds the newer tree
ReloadedRegisteredFile ==
    /\ Len(srcs) = 2
    /\ Len(fsets) = 2
    /\ srcs[1].path = P1
    /\ srcs[2].path = P2
    /\ srcs[2].syntax # NoSyntax
    /\ srcs[2].syntax.fset = 1
    /\ srcs[1].syntax # NoSyntax
    /\ srcs[1].syntax.fset = 2

\* C3: for every Package with a LoadInfo, IllTyped holds exactly if
\* TypeErrors is non-empty or typePkg is nil, whichever pass wrote it.
IllTypedIffErrorsOrNoHandle ==
    \A i \in 1..Len(pkgs) :
        pkgs[i].loadInfo # NoLoadInfo =>
            (pkgs[i].loadInfo.IllTyped <=>
                (pkgs[i].loadInfo.TypeErrors # <<>> \/ pkgs[i].typePkg = 0))

\* a package pass has found no types.Package and no error
IllTypedWithoutHandle ==
    /\ call.op = "loadPackage"
    /\ ~call.tc.typePkg
    /\ ~call.tc.typeErr
    /\ pkgs[ret.pkg].loadInfo # NoLoadInfo
    /\ pkgs[ret.pkg].loadInfo.IllTyped
    /\ pkgs[ret.pkg].typePkg = 0

\* whether a pass can read the file and finds it non-empty
Readable(f, p) == IsFile(f, p) /\ f[p].bytes # <<>>

FileErrorOf(f, p) == IF IsFile(f, p) THEN EmptyError(p) ELSE ReadError(p)

\* the FileErrors of a pass over the files, in their order
RECURSIVE FileErrorsOf(_, _)
FileErrorsOf(f, files) ==
    IF files = <<>> THEN <<>>
    ELSE (IF Readable(f, Head(files)) THEN <<>> ELSE <<FileErrorOf(f, Head(files))>>)
            \o FileErrorsOf(f, Tail(files))

TypeErrorsOf(c) ==
    IF c.tc.typeErr THEN <<TypeError>>
    ELSE IF c.op = "loadPackage" /\ ~c.tc.typePkg THEN <<NoTypesPackageError>>
    ELSE <<>>

\* C4: after a pass that succeeded, the LoadInfo of the Package is the one of
\* this pass alone: the time of the pass, the files the pass read, the errors
\* the pass met, IllTyped of this type check, and nothing of the LoadInfo the
\* Package had before.
LoadInfoOfLatestPass ==
    (IsPass(call) /\ ret.err = "") =>
        LET info == pkgs[ret.pkg].loadInfo
        IN  /\ info # NoLoadInfo
            /\ info.LoadTime = clock
            /\ info.LoadedFiles = SelectSeq(call.files, LAMBDA p : Readable(fs, p))
            /\ info.FileErrors = FileErrorsOf(fs, call.files)
            /\ info.TypeErrors = TypeErrorsOf(call)
            /\ info.IllTyped = (TypeErrorsOf(call) # <<>>)
            /\ info.IgnoredFiles = <<>>
            /\ info.DepsErrors = <<>>

\* a second pass, over the first file alone and without type errors, on a
\* Package whose first pass had loaded the second file with a type error
ReloadedWithFreshLoadInfo ==
    /\ IsPass(call)
    /\ ret.err = ""
    /\ clock = 2
    /\ call.files = <<P1>>
    /\ ~call.tc.typeErr
    /\ P2 \in DOMAIN pkgs[ret.pkg].srcFiles
    /\ pkgs[ret.pkg].loadInfo # NoLoadInfo
    /\ pkgs[ret.pkg].loadInfo.LoadedFiles = <<P1>>
    /\ pkgs[ret.pkg].loadInfo.TypeErrors = <<>>

\* the import paths the files of a pass declare
RECURSIVE DeclaredBy(_)
DeclaredBy(files) ==
    IF files = <<>> THEN {}
    ELSE Range(ImportPaths(ParsedTree(Head(files)).Imports)) \cup DeclaredBy(Tail(files))

\* C5: after a pass that succeeded, the import list of the Package holds only
\* import paths that the files of this pass declare.
ImportsOfLatestPass ==
    (IsPass(call) /\ ret.err = "") =>
        Range(pkgs[ret.pkg].imports) \subseteq DeclaredBy(call.files)

\* C6: after update with a member map, a member of the map is in the member
\* set of the file exactly if the FileSet of the owning Package resolves its
\* position to a filename equal to the path of the file; the member set holds
\* nothing else, in particular no member of an earlier update and no member of
\* a file whose path only starts with the path of the file.
MembersByExactPath ==
    call.op = "update" =>
        LET file  == srcs[call.file]
            table == fsets[pkgs[file.pkg].fileSet]
        IN  /\ \A m \in Members \ {NilMember} :
                  m \in Range(file.memSet) <=>
                      (m \in Range(call.members) /\ Filename(table, m.Pos) = file.path)
            /\ Range(file.memSet) \subseteq Members \ {NilMember}
            /\ Len(file.memSet) = Cardinality(Range(file.memSet))

\* update on the first file, whose path is a proper prefix of the path of the
\* second, with a member of each file, has kept the member of the first only
MemberOfLongerPathLeftOut ==
    /\ call.op = "update"
    /\ srcs[call.file].path = P1
    /\ HasPrefix(P2, P1)
    /\ fsets[pkgs[srcs[call.file].pkg].fileSet] = DirFiles
    /\ MemberA \in Range(call.members)
    /\ MemberB \in Range(call.members)
    /\ srcs[call.file].memSet = <<MemberA>>

-----------------------------------------------------------------------------
\* Properties of the package inference and of the loaders

\* whether dir is the directory root or lies below it
Within(root, dir) ==
    dir = root \/ HasPrefix(dir, root \o Slash)

\* the import path of a directory of a module: the module name, followed by
\* what the path of the directory has after the path of the root
ImportPathIn(module, dir) ==
    module.ModuleName \o SubSeq(dir, Len(module.RootPath) + 1, Len(dir))

\* name is the last element of path
IsBaseName(name, path) ==
    /\ name # <<>>
    /\ \A i \in 1..Len(name) : name[i] # "/"
    /\ HasSuffix(path, Slash \o name)

\* C11: for a Module and an existing directory of it, inferGoPkgInfo returns
\* the module name joined with the path of the directory relative to the
\* module root as import path, the base name of the directory as short name
\* and the directory as directory path; it fails with NoModule for a nil
\* Module and with NotExist for a target that does not exist.
InferredOfDirectory ==
    call.op = "inferGoPkgInfo" =>
        /\ call.module = NoModule => ret.err = "NoModule"
        /\ (call.module # NoModule /\ Missing(fs, call.path)) => ret.err = "NotExist"
        /\ (/\ call.module # NoModule
            /\ IsDir(fs, call.path)
            /\ Within(call.module.RootPath, call.path))
           => /\ ret.err = ""
              /\ ret.pkgPath = ImportPathIn(call.module, call.path)
              /\ IsBaseName(ret.pkgName, call.path)
              /\ ret.pkgDir = call.path

\* the directory two levels below the root of the module has been inferred
InferredNestedDirectory ==
    /\ call.op = "inferGoPkgInfo"
    /\ call.module # NoModule
    /\ call.module.RootPath = DirR
    /\ call.path = DirSP
    /\ ret.err = ""
    /\ ret.pkgPath = <<"m", "/", "s", "/", "p">>
    /\ ret.pkgName = <<"p">>

\* whether the file is a Go file the parser accepts
Parseable(f, p) ==
    /\ IsFile(f, p)
    /\ HasSuffix(p, GoFileSuffix)
    /\ f[p].bytes # <<>>
    /\ ParseFile(f[p].bytes).err = ""

\* C12: for a Module and a source file of it that declares a package,
\* inferGoPkgInfo returns the directory of the file as directory path, the
\* module name joined with the relative path of that directory as import path
\* and the package name the file declares as short name; for a source file
\* without a package line it fails.
InferredOfSourceFile ==
    (/\ call.op = "inferGoPkgInfo"
     /\ call.module # NoModule
     /\ IsFile(fs, call.path)
     /\ HasSuffix(call.path, GoFileSuffix)
     /\ Within(call.module.RootPath, Dir(call.path)))
    => IF Parseable(fs, call.path)
       THEN /\ ret.err = ""
            /\ ret.pkgDir = Dir(call.path)
            /\ ret.pkgPath = ImportPathIn(call.module, Dir(call.path))
            /\ ret.pkgName = ParseFile(fs[call.path].bytes).Name
       ELSE PackageLine(Split(fs[call.path].bytes, NewLine)).err # "" => ret.err # ""

\* whether no directory from d upward holds an entry named go.mod
NoManifestAbove(f, d) ==
    \A i \in 1..Len(SelfAndAncestors(d)) :
        Join(SelfAndAncestors(d)[i], GoModFileName) \notin DOMAIN f

\* C13: for a parseable Go file without a go.mod in any directory above it,
\* and a type check that yields a package, loadSourceFileByFree returns the
\* SrcFile of the file; its Package has no Program, the name the file declares
\* and the directory of the file as directory, and a LoadInfo of this one file.
LoadsWithoutManifest ==
    (/\ call.op = "loadSourceFileByFree"
     /\ Parseable(fs, call.path)
     /\ NoManifestAbove(fs, Dir(call.path))
     /\ call.tc.typePkg)
    => /\ ret.err = ""
       /\ ret.file # 0
       /\ srcs[ret.file].path = call.path
       /\ srcs[ret.file].syntax # NoSyntax
       /\ LET pkg == pkgs[srcs[ret.file].pkg]
          IN  /\ ~pkg.program
              /\ pkg.pkgName = ParseFile(fs[call.path].bytes).Name
              /\ pkg.dirPath = Dir(call.path)
              /\ pkg.loadInfo # NoLoadInfo
              /\ pkg.loadInfo.LoadedFiles = <<call.path>>

\* whether the nearest go.mod from d upward exists and has content
ManifestFound(f, d) ==
    /\ ManifestDirs(f, d) # {}
    /\ f[Join(NearestManifestDir(f, d), GoModFileName)].bytes # <<>>

\* the Module of the nearest go.mod from d upward
ModuleAbove(f, d) ==
    newModule(f, Join(NearestManifestDir(f, d), GoModFileName)).module

\* the package names the Go files of the directory declare
DeclaredNames(f, dir) ==
    {ParseFile(f[p].bytes).Name : p \in Range(DirGoFiles(f, dir))}

\* the Packages a loader returned that have the name
ReturnedNamed(name) ==
    {i \in 1..Len(ret.pkgs) : pkgs[ret.pkgs[i]].pkgName = name}

\* C14: loadGoDirectoryByFree on a directory of a module whose Go files all
\* parse and declare several package names returns one Package for each
\* declared name; each has the directory as directory path, the Package named
\* as the directory has the import path of the directory, every other has that
\* import path with "/" and its name appended, and the import paths differ
\* pairwise.
DirectoryOfSeveralPackages ==
    (/\ call.op = "loadGoDirectoryByFree"
     /\ IsDir(fs, call.path)
     /\ ManifestFound(fs, call.path)
     /\ \A p \in Range(DirGoFiles(fs, call.path)) : Parseable(fs, p)
     /\ Cardinality(DeclaredNames(fs, call.path)) >= 2)
    => /\ ret.err = ""
       /\ Len(ret.pkgs) = Cardinality(DeclaredNames(fs, call.path))
       /\ \A n \in DeclaredNames(fs, call.path) :
             /\ Cardinality(ReturnedNamed(n)) = 1
             /\ \A i \in ReturnedNamed(n) :
                   LET base == ImportPathIn(ModuleAbove(fs, call.path), call.path)
                   IN  /\ pkgs[ret.pkgs[i]].dirPath = call.path
                       /\ pkgs[ret.pkgs[i]].pkgPath =
                             IF IsBaseName(n, call.path) THEN base ELSE base \o Slash \o n
       /\ \A i, j \in 1..Len(ret.pkgs) :
             pkgs[ret.pkgs[i]].pkgPath = pkgs[ret.pkgs[j]].pkgPath => i = j

\* C15: loadGoDirectoryByFree returns an error and no Package for a path that
\* does not exist, for a path that is no directory, and for a directory
\* without a go.mod in it or above it.
DirectoryLoaderFails ==
    (/\ call.op = "loadGoDirectoryByFree"
     /\ \/ call.path \notin DOMAIN fs
        \/ IsFile(fs, call.path)
        \/ ManifestDirs(fs, call.path) = {})
    => /\ ret.err \notin {"", "panic"}
       /\ ret.pkgs = <<>>
       /\ pkgs = <<>>

\* whether the file is a Go file with content that the parser rejects
SyntaxError(f, p) ==
    /\ IsFile(f, p)
    /\ HasSuffix(p, GoFileSuffix)
    /\ f[p].bytes # <<>>
    /\ ParseFile(f[p].bytes).err # ""

\* C16: loadGoDirectoryByFree on a directory of a module that holds a Go file
\* with a syntax error and a well-formed Go file returns a Package whose
\* LoadInfo has IllTyped set and a FileErrors or TypeErrors entry, and in which
\* the well-formed file is registered with its syntax tree.
SyntaxErrorKeepsPackage ==
    \A bad, good \in Range(SortedPaths) :
        (/\ call.op = "loadGoDirectoryByFree"
         /\ IsDir(fs, call.path)
         /\ ManifestFound(fs, call.path)
         /\ Dir(bad) = call.path
         /\ Dir(good) = call.path
         /\ SyntaxError(fs, bad)
         /\ Parseable(fs, good))
        => /\ ret.err = ""
           /\ \E i \in 1..Len(ret.pkgs) :
                 LET pkg == pkgs[ret.pkgs[i]]
                 IN  /\ pkg.loadInfo # NoLoadInfo
                     /\ pkg.loadInfo.IllTyped
                     /\ pkg.loadInfo.FileErrors # <<>> \/ pkg.loadInfo.TypeErrors # <<>>
                     /\ good \in DOMAIN pkg.srcFiles
                     /\ srcs[pkg.srcFiles[good]].syntax # NoSyntax

\* the directories from root downward that hold Go files, and whether every
\* Go file of the directory parses
SourceDirs(f, root) ==
    {Dir(p) : p \in {q \in Range(SortedPaths) : IsFile(f, q) /\ Within(root, Dir(q))}}

Healthy(f, d) ==
    \A p \in Range(DirGoFiles(f, d)) : Parseable(f, p)

\* C17: loadAllDirectoriesByFree on a directory with a go.mod in it or above
\* it, in a tree where the files of one directory fail to parse, returns no
\* error, and returns a Package of every other directory that holds Go files
\* which all parse.
RecursiveLoadSkipsFailures ==
    (/\ call.op = "loadAllDirectoriesByFree"
     /\ IsDir(fs, call.path)
     /\ ManifestFound(fs, call.path)
     /\ \E d \in SourceDirs(fs, call.path) : ~Healthy(fs, d))
    => /\ ret.err = ""
       /\ \A d \in SourceDirs(fs, call.path) :
             Healthy(fs, d) => \E i \in 1..Len(ret.pkgs) : pkgs[ret.pkgs[i]].dirPath = d

\* C18: a package pass in which no file of astPkg can be read, or every file
\* is found empty, fails with NoFiles; the type checker is not called and the
\* Package gets no result of a type check.
EmptySyntaxSetIsNoFiles ==
    (/\ call.op = "loadPackage"
     /\ \A p \in Range(call.files) : ~Readable(fs, p))
    => /\ ret.err = "NoFiles"
       /\ pkgs[ret.pkg].typInfo = 0

\* the indices at which the sequence holds a value that satisfies Is
Indices(q, Is(_)) == {i \in 1..Len(q) : Is(q[i])}

\* C19: a package pass over a non-empty astPkg.Files does not fail. Each file
\* that is read with content is once in LoadedFiles, once in the syntax set of
\* the type checker, registered in the Package with a syntax tree, and has no
\* FileErrors entry; each file that is unreadable or empty has exactly one
\* FileErrors entry and is neither in LoadedFiles nor in the syntax set. So
\* Len(LoadedFiles) + Len(FileErrors) is the number of files.
EveryFileHandledOnce ==
    call.op = "loadPackage" =>
        LET pkg  == pkgs[ret.pkg]
            info == pkg.loadInfo
        IN  /\ ret.err = ""
            /\ info # NoLoadInfo
            /\ Len(info.LoadedFiles) + Len(info.FileErrors) = Len(call.files)
            /\ \A p \in Range(call.files) :
                  LET loaded  == Indices(info.LoadedFiles, LAMBDA x : x = p)
                      checked == Indices(ret.checked, LAMBDA x : x = p)
                      errors  == Indices(info.FileErrors, LAMBDA e : e.path = p)
                  IN  IF Readable(fs, p)
                      THEN /\ Cardinality(loaded) = 1
                           /\ Cardinality(checked) = 1
                           /\ errors = {}
                      ELSE /\ loaded = {}
                           /\ checked = {}
                           /\ Cardinality(errors) = 1
            /\ \A i \in 1..Len(info.LoadedFiles) :
                  /\ info.LoadedFiles[i] \in DOMAIN pkg.srcFiles
                  /\ srcs[pkg.srcFiles[info.LoadedFiles[i]]].path = info.LoadedFiles[i]
                  /\ srcs[pkg.srcFiles[info.LoadedFiles[i]]].syntax # NoSyntax

\* a pass over both files has found the first empty and has read the second
PassReadOneOfTwoFiles ==
    /\ call.op = "loadPackage"
    /\ Len(call.files) = 2
    /\ call.files[1] = P1
    /\ fs[P1].bytes = <<>>
    /\ Readable(fs, P2)
    /\ ret.err = ""
    /\ ret.checked = <<P2>>
    /\ pkgs[ret.pkg].loadInfo.LoadedFiles = <<P2>>
    /\ pkgs[ret.pkg].loadInfo.FileErrors = <<EmptyError(P1)>>

\* the directory in which a loader looks for the go.mod of its target
ManifestStart(c) ==
    IF c.op = "loadSourceFileByFree" THEN Dir(c.path) ELSE c.path

\* C20: a call of loadSourceFileByFree on a Go file that parses, or of
\* loadGoDirectoryByFree or loadAllDirectoriesByFree on a directory, returns an
\* error when the nearest go.mod above the target is empty.
EmptyManifestFailsLoad ==
    (/\ call.op \in {"loadSourceFileByFree", "loadGoDirectoryByFree",
                     "loadAllDirectoriesByFree"}
     /\ IF call.op = "loadSourceFileByFree"
        THEN Parseable(fs, call.path)
        ELSE IsDir(fs, call.path)
     /\ ManifestDirs(fs, ManifestStart(call)) # {}
     /\ ~ManifestFound(fs, ManifestStart(call)))
    => ret.err \notin {"", "panic"}

-----------------------------------------------------------------------------
\* Properties of concurrent callers, under SpecWorkers

\* the object the registry holds for the last call of the goroutine
Registered(c) ==
    IF c.fn = "newPackage"
    THEN pkgSet[c.args.pkgPath]
    ELSE pkgs[c.args.pkg].srcFiles[c.args.path]

Returned(w) ==
    call.at[w].pc = "idle" /\ call.at[w].fn # ""

SameKey(c, d) ==
    /\ c.fn = d.fn
    /\ IF c.fn = "newPackage" THEN c.args.pkgPath = d.args.pkgPath ELSE c.args = d.args

\* C21: where the callers hold a lock around each call of Program.newPackage
\* and Package.newSrcFile, the goroutines that ask for the same key get the
\* same object, which is the one the registry holds, and every Package and
\* every SrcFile created is the one entry of its registry for its key; no
\* call ends the program.
SyncedCallersAgree ==
    call.sync =>
        /\ ~call.dead
        /\ \A w \in Workers : Returned(w) => ret.got[w] = Registered(call.at[w])
        /\ \A v, w \in Workers :
              (Returned(v) /\ Returned(w) /\ SameKey(call.at[v], call.at[w]))
                 => ret.got[v] = ret.got[w]
        /\ \A i \in 1..Len(pkgs) :
              pkgs[i].pkgPath \in DOMAIN pkgSet /\ pkgSet[pkgs[i].pkgPath] = i
        /\ \A j \in 1..Len(srcs) :
              /\ srcs[j].path \in DOMAIN pkgs[srcs[j].pkg].srcFiles
              /\ pkgs[srcs[j].pkg].srcFiles[srcs[j].path] = j

\* two goroutines under the lock have asked for the same import path with
\* different names and have got the same Package
SyncedCallersGotSame ==
    /\ call.sync
    /\ \E v, w \in Workers :
          /\ v # w
          /\ Returned(v)
          /\ Returned(w)
          /\ call.at[v].fn = "newPackage"
          /\ call.at[w].fn = "newPackage"
          /\ call.at[v].args.pkgPath = call.at[w].args.pkgPath
          /\ call.at[v].args.pkgName # call.at[w].args.pkgName
          /\ ret.got[v] = ret.got[w]
          /\ Len(pkgs) = 1

\* without the lock: two goroutines have asked for the same import path and
\* hold different Packages, one of which the registry does not hold
UnsyncedCallersDisagree ==
    /\ ~call.sync
    /\ \E v, w \in Workers :
          /\ Returned(v)
          /\ Returned(w)
          /\ SameKey(call.at[v], call.at[w])
          /\ ret.got[v] # ret.got[w]

-----------------------------------------------------------------------------
\* Properties of FindPackagePath, under SpecLoad

\* the module name a manifest text declares: what follows the keyword on the
\* first line that starts with it
RECURSIVE NameDeclaredIn(_)
NameDeclaredIn(lines) ==
    IF lines = <<>> THEN <<>>
    ELSE IF HasPrefix(Head(lines), GoModulePrefix)
    THEN TrimSpace(SubSeq(Head(lines), Len(GoModulePrefix) + 1, Len(Head(lines))))
    ELSE NameDeclaredIn(Tail(lines))

\* the import path of the directory in the module of the nearest go.mod
SaidPackagePath(f, d) ==
    NameDeclaredIn(Split(f[Join(NearestManifestDir(f, d), GoModFileName)].bytes, newline))
        \o SubSeq(d, Len(NearestManifestDir(f, d)) + 1, Len(d))

\* C22: findPackagePath of a directory returns the absolute path of the
\* directory when there is no go.mod in it or above it, and for a go.mod that
\* declares a module name it returns that name followed by the path of the
\* directory relative to the directory of the go.mod, which is the import
\* path inferGoPkgInfo gives the directory.
PackagePathOfDirectory ==
    (call.op = "findPackagePath" /\ IsDir(fs, call.path)) =>
        /\ ManifestDirs(fs, call.path) = {} => ret.path = Abs(call.path)
        /\ ManifestFound(fs, call.path) => ret.path = SaidPackagePath(fs, call.path)

-----------------------------------------------------------------------------
\* Properties of the objects the passes leave, under Spec and SpecReg

\* C23: after a single-file pass that succeeded, every SrcFile of the
\* Package that has a syntax tree has the tree of a file of the FileSet the
\* Package holds: the FileSet the tree was parsed into is pkg.fileSet, also
\* where earlier passes have loaded other files into the Package.
TreesOfPackageFileSet ==
    (call.op = "loadFile" /\ ret.err = "") =>
        \A j \in 1..Len(srcs) :
            (srcs[j].pkg = ret.pkg /\ srcs[j].syntax # NoSyntax) =>
                srcs[j].syntax.fset = pkgs[ret.pkg].fileSet

\* the import paths of a list, each once
NoDuplicates(q) ==
    \A i, j \in 1..Len(q) : q[i] = q[j] => i = j

\* C24: the import list of a Package holds no import path twice, and after a
\* pass that succeeded it holds the import paths the files of the pass
\* declare, each once.
ImportsWithoutDuplicates ==
    /\ \A i \in 1..Len(pkgs) : NoDuplicates(pkgs[i].imports)
    /\ (IsPass(call) /\ ret.err = "") =>
          Range(pkgs[ret.pkg].imports) = DeclaredBy(call.files)

\* C25: a Package for which the type checker yields no types.Package is not
\* appended to the Packages the directory loaders return.
NoHandleLeavesPackageOut ==
    (call.op = "loadPackage" /\ ~call.tc.typePkg) => ~ret.returned

-----------------------------------------------------------------------------
\* Properties of the type check, under SpecCheck

\* C26: the type check of a pass looks into function bodies, does not make
\* the pass fail, and does not report unused imports: a package in which
\* nothing is wrong but an import that is not used is not marked IllTyped.
UnusedImportNotIllTyped ==
    call.op = "Check" =>
        /\ call.found.body => ret.typeErr
        /\ ret.err = ""
        /\ (/\ ~call.found.decl
            /\ ~call.found.body
            /\ UnusedImports(TreesOf(fs, call.files)) # {})
           => ~ret.IllTyped

-----------------------------------------------------------------------------
\* Properties of the registries, under SpecReg

\* every entry of pkgSet is a Package of the Program with the key as import
\* path, every entry of srcFiles a SrcFile of the Package with the key as path
KeyConsistent ==
    /\ \A p \in DOMAIN pkgSet :
          /\ pkgSet[p] \in 1..Len(pkgs)
          /\ pkgs[pkgSet[p]].pkgPath = p
          /\ pkgs[pkgSet[p]].program
    /\ \A i \in 1..Len(pkgs) : \A p \in DOMAIN pkgs[i].srcFiles :
          /\ pkgs[i].srcFiles[p] \in 1..Len(srcs)
          /\ srcs[pkgs[i].srcFiles[p]].path = p
          /\ srcs[pkgs[i].srcFiles[p]].pkg = i

\* a step keeps every entry of both registries
EntriesKept ==
    /\ \A p \in DOMAIN pkgSet : p \in DOMAIN pkgSet' /\ pkgSet'[p] = pkgSet[p]
    /\ \A i \in 1..Len(pkgs) :
          /\ i \in 1..Len(pkgs')
          /\ \A p \in DOMAIN pkgs[i].srcFiles :
                /\ p \in DOMAIN pkgs'[i].srcFiles
                /\ pkgs'[i].srcFiles[p] = pkgs[i].srcFiles[p]

\* C27: in every state each key of the package registry of the Program holds
\* a Package with that import path and that Program, and each key of the file
\* registry of a Package holds a SrcFile with that path and that Package; and
\* no step removes or replaces an entry of either registry.
RegistriesKeyConsistent ==
    []KeyConsistent /\ [][EntriesKept]_vars

\* the Program holds two Packages, one of them with both files
RegistriesFilled ==
    /\ Cardinality(DOMAIN pkgSet) = 2
    /\ \E i \in 1..Len(pkgs) : DOMAIN pkgs[i].srcFiles = {P1, P2}

-----------------------------------------------------------------------------
\* Properties of the Packages of a recursive load, under SpecLoad

\* the directories below root with the package names their Go files declare
DeclaredPairs(f, root) ==
    {<<d, n>> : d \in SourceDirs(f, root), n \in {<<"a">>, <<"r">>, <<"s">>}}
        \cap {<<Dir(p), ParseFile(f[p].bytes).Name>> :
                 p \in {q \in Range(SortedPaths) : IsFile(f, q)}}

\* C28: loadAllDirectoriesByFree on a tree of a module whose Go files all
\* parse returns, for each directory and each package name declared in it, a
\* Package of that directory and name; no Package is twice in the result, and
\* every SrcFile of a Package lies in the directory of the Package. This holds
\* also where the root declares a package named as its subdirectory, which
\* declares that name itself.
RecursiveLoadKeepsPackagesApart ==
    (/\ call.op = "loadAllDirectoriesByFree"
     /\ IsDir(fs, call.path)
     /\ ManifestFound(fs, call.path)
     /\ \A d \in SourceDirs(fs, call.path) : Healthy(fs, d)
     /\ Cardinality(DeclaredPairs(fs, call.path)) >= 2)
    => /\ ret.err = ""
       /\ \A pair \in DeclaredPairs(fs, call.path) :
             \E i \in 1..Len(ret.pkgs) :
                /\ pkgs[ret.pkgs[i]].dirPath = pair[1]
                /\ pkgs[ret.pkgs[i]].pkgName = pair[2]
       /\ NoDuplicates(ret.pkgs)
       /\ \A j \in 1..Len(srcs) : Dir(srcs[j].path) = pkgs[srcs[j].pkg].dirPath

-----------------------------------------------------------------------------
\* Properties of the SrcFiles of the loaders, under SpecFiles

\* C29: Contain with a valid position and update with a member map that is not
\* empty, called on a SrcFile that LoadBaseFile or loadSourceFileByFree
\* returned, complete: neither dereferences a missing Package or FileSet.
LoadedFilesAnswer ==
    (/\ call.op \in {"Contain", "update"}
     /\ call.op = "Contain" => call.pos # NoPos
     /\ call.op = "update" => call.members # <<>>)
    => ret.err # "panic"

\* the same calls on a SrcFile of loadSourceFileByFree complete
SourceFileLoaderFilesAnswer ==
    (call.op \in {"Contain", "update"} /\ call.loader = "loadSourceFileByFree")
    => ret.err # "panic"

\* Contain answered for a valid position
ContainAnswered ==
    call.op = "Contain" /\ call.pos # NoPos /\ ret.err = "" /\ ret.in

-----------------------------------------------------------------------------
\* Properties of the upward search, under FairSearch

Searching == call.op \in {"goModFileOf", "findGoModFileOf"}

\* the path and the directories above it, below the root, nearest first
SearchChain(start) ==
    SelectSeq(<<start>> \o Ancestors(start), LAMBDA d : d # Root)

\* the directories of the chain that hold a go.mod, by their places
Holders(f, start) ==
    {i \in 1..Len(SearchChain(start)) :
        /\ IsDir(f, SearchChain(start)[i])
        /\ Join(SearchChain(start)[i], GoModFileName) \in DOMAIN f}

\* the directory a finished search reports, <<>> for none
Reported ==
    IF call.op = "goModFileOf" THEN ret.path
    ELSE IF ret.path = NoneString THEN <<>> ELSE Dir(ret.path)

\* what the search is to report from the path
Nearest(f, start) ==
    IF Holders(f, start) = {} THEN <<>>
    ELSE SearchChain(start)[CHOOSE i \in Holders(f, start) :
                                \A j \in Holders(f, start) : i <= j]

\* C30: the upward search from any absolute path reports the nearest of the
\* directories, from the path up to below the root, that hold a go.mod, and
\* reports that there is none where none of them holds one.
SearchReportsNearest ==
    (Searching /\ call.done) => Reported = Nearest(fs, call.start)

\* the same for a search that starts in a directory
SearchFromDirectoryReportsNearest ==
    (Searching /\ call.done /\ IsDir(fs, call.start))
    => Reported = Nearest(fs, call.start)

\* the search probes the directories of the chain in their order, each once
SearchProbesAscend ==
    Searching
    => /\ Len(call.probed) <= Len(SearchChain(call.start))
       /\ \A i \in 1..Len(call.probed) : call.probed[i] = SearchChain(call.start)[i]

\* the steps of the search end where the functions do
SearchAsComputed ==
    (Searching /\ call.done)
    => ret = IF call.op = "goModFileOf" THEN goModFileOf(fs, Abs(call.start))
             ELSE [err |-> "", path |-> findGoModFileOf(fs, call.start)]

\* every search ends
SearchEnds ==
    Searching ~> (Searching /\ call.done)

\* a search that went up two directories before it found the go.mod
SearchWentUp ==
    Searching /\ call.done /\ Len(call.probed) = 3 /\ Reported = DirR

====
